---------------------------- MODULE Spec2Model ----------------------------
(***************************************************************************)
(* PrismaAssistant: the retrieval and relevance-ranking pipeline.          *)
(*   modules/deduplication.py  remove_exact_duplicates,                    *)
(*                             remove_semantic_duplicates                  *)
(*   modules/screening.py      screen_articles                             *)
(*   modules/filters.py        apply_filters                               *)
(*   modules/search_engine.py  search_articles                             *)
(*                                                                         *)
(* A Python str is a sequence of one-character strings, so that strip(),   *)
(* lower(), isalnum() and slicing are computed and not assumed.  A key     *)
(* that is missing from an article dict, or None, is the empty sequence    *)
(* wherever the code reads it through a truthiness test.                   *)
(***************************************************************************)
EXTENDS Integers, Sequences, FiniteSets, TLC

VARIABLES
    pc,         \* position of the driver of the stage under study
    articles,   \* the list handed to the stage (the dicts are mutated in place)
    unique,     \* deduplication: kept list of the first call
    removed,    \* deduplication: removed list of the first call
    unique2,    \* deduplication: kept list of the second call
    removed2,   \* deduplication: removed list of the second call
    similarity_threshold,   \* remove_semantic_duplicates: threshold of the first call
    similarity_threshold2,  \* remove_semantic_duplicates: threshold of the second call
    query_text,         \* screen_articles: the query text after lines 28-42
                        \* (QuestionSpec: query_input, the question as passed)
    encode_fault,       \* screen_articles: which encoder call raises, if any
    relevant_articles,  \* screen_articles: the list returned
    excluded_articles,  \* screen_articles: the list exported as excluded
    start_year,     \* apply_filters: argument (0 stands for None and for 0)
    end_year,       \* apply_filters: argument (0 stands for None and for 0)
    journals,       \* apply_filters: argument (the empty set for None and [])
    open_access,    \* apply_filters: argument
    language,       \* apply_filters: argument (the empty str for None and "")
    filtered,       \* apply_filters: the list returned
    adapter_outcome,    \* search_articles: what each adapter call produces
    pending,            \* search_articles: the futures as_completed has not yielded
    all_articles,       \* search_articles: the records collected so far
    max_results,        \* search_articles: argument
    final_list,         \* search_articles: the list returned
    search_raised,      \* search_articles: an exception left the call
    session_runs,   \* /apply_filters: requests served for the session so far
    http_status,    \* status of the last response (0: none yet)
    last_request,   \* the endpoint of the last request and whether its session exists
    translate_outcome,  \* screen_articles: what translate_question_to_english does
    hung,           \* search_articles: the adapter calls that never complete
    downloads,      \* enrichment: the records whose PDF was requested
    articles_map,   \* search_semantic_scholar_oa: the papers collected so far
    offset,         \* search_semantic_scholar_oa: offset of the next page
    target,         \* search_semantic_scholar_oa: argument
    variation       \* search_semantic_scholar_oa: index of the term group

dedupVars == <<unique, removed, unique2, removed2,
               similarity_threshold, similarity_threshold2>>

screenVars == <<query_text, encode_fault, relevant_articles, excluded_articles,
                translate_outcome>>

filterVars == <<start_year, end_year, journals, open_access, language, filtered>>

adapterVars == <<articles_map, offset, target, variation>>

searchVars == <<adapter_outcome, pending, all_articles, max_results, final_list,
                search_raised, hung, downloads, adapterVars>>

sessionVars == <<session_runs, http_status, last_request>>

vars == <<pc, articles, dedupVars, screenVars, filterVars, searchVars, sessionVars>>

\* the state of a stage that is not under study
DedupIdle ==
    /\ unique = <<>>
    /\ removed = <<>>
    /\ unique2 = <<>>
    /\ removed2 = <<>>
    /\ similarity_threshold = 0
    /\ similarity_threshold2 = 0

ScreenIdle ==
    /\ query_text = <<>>
    /\ encode_fault = "none"
    /\ relevant_articles = <<>>
    /\ excluded_articles = <<>>
    /\ translate_outcome = "none"

FilterIdle ==
    /\ start_year = 0
    /\ end_year = 0
    /\ journals = {}
    /\ open_access = FALSE
    /\ language = <<>>
    /\ filtered = <<>>

AdapterIdle ==
    /\ articles_map = {}
    /\ offset = 0
    /\ target = 0
    /\ variation = 0

SearchIdle ==
    /\ adapter_outcome = <<>>
    /\ pending = {}
    /\ all_articles = <<>>
    /\ max_results = 0
    /\ final_list = <<>>
    /\ search_raised = FALSE
    /\ hung = {}
    /\ downloads = {}
    /\ AdapterIdle

SessionIdle ==
    /\ session_runs = 0
    /\ http_status = 0
    /\ last_request = <<>>

---------------------------------------------------------------------------
(* Python str operations                                                   *)

UpperLetters ==
    <<"A", "B", "C", "D", "E", "F", "G", "H", "I", "J", "K", "L", "M",
      "N", "O", "P", "Q", "R", "S", "T", "U", "V", "W", "X", "Y", "Z">>

LowerLetters ==
    <<"a", "b", "c", "d", "e", "f", "g", "h", "i", "j", "k", "l", "m",
      "n", "o", "p", "q", "r", "s", "t", "u", "v", "w", "x", "y", "z">>

Digits ==
    {"0", "1", "2", "3", "4", "5", "6", "7", "8", "9"}

Range(s) ==
    {s[i] : i \in DOMAIN s}

Min(a, b) ==
    IF a <= b THEN a ELSE b

\* str.lower() on one character
LowerMap ==
    [c \in Range(UpperLetters) |->
        LowerLetters[CHOOSE i \in DOMAIN UpperLetters : UpperLetters[i] = c]]

LowerChar(c) ==
    IF c \in DOMAIN LowerMap THEN LowerMap[c] ELSE c

\* str.lower()
Lower(s) ==
    [i \in 1..Len(s) |-> LowerChar(s[i])]

\* str.isspace() on one character
IsSpace(c) ==
    c \in {" ", "\t", "\n"}

\* str.isalnum() on one character
AlnumChars ==
    Range(UpperLetters) \cup Range(LowerLetters) \cup Digits

IsAlnum(c) ==
    c \in AlnumChars

\* str.lstrip(), str.rstrip(), str.strip(): drop leading / trailing whitespace
RECURSIVE LStrip(_)
LStrip(s) ==
    IF s = <<>> THEN s
    ELSE IF IsSpace(Head(s)) THEN LStrip(Tail(s)) ELSE s

RECURSIVE RStrip(_)
RStrip(s) ==
    IF s = <<>> THEN s
    ELSE IF IsSpace(s[Len(s)]) THEN RStrip(SubSeq(s, 1, Len(s) - 1)) ELSE s

Strip(s) ==
    RStrip(LStrip(s))

\* s[:n]
Prefix(s, n) ==
    SubSeq(s, 1, Min(n, Len(s)))

\* Python truthiness of a str (or of None, modelled as the empty sequence)
Truthy(s) ==
    s # <<>>

---------------------------------------------------------------------------
(* The article dict (modules/search_engine.py, the adapters' records)      *)

NoText == <<>>

\* keys an adapter may leave out, and keys only a later stage sets
ArticleDefaults ==
    [title |-> NoText, abstract |-> NoText, full_text |-> NoText,
     year |-> 0, doi |-> NoText, journal |-> NoText,
     url |-> NoText, pdf_url |-> NoText, isOpenAccess |-> FALSE,
     open_access |-> FALSE, null_keys |-> {}, pdf_extraction_status |-> "",
     removal_reason |-> <<>>, similarity |-> <<>>, relevance |-> "",
     excluded_reason |-> <<>>, text_source |-> ""]

---------------------------------------------------------------------------
(* modules/deduplication.py : remove_exact_duplicates                      *)

\* a reason string is the tuple of the pieces of its (f-)string; no key: <<>>
ReasonNone == <<>>
ReasonExactDoi == <<"Duplicado Exacto (DOI)">>
ReasonExactTitleYear == <<"Duplicado Exacto (Titulo + Ano)">>

\* modules/search_engine.py line 299: the title fingerprint of the identity merge,
\* "".join(e for e in a.get('title', '').lower() if e.isalnum())[:60]
TitleKeyLen == 60

TitleFingerprint(title) ==
    Prefix(SelectSeq(Lower(title), IsAlnum), TitleKeyLen)

\* line 24: (a.get("title", "").strip().lower(), a.get("year"))
TitleYearKey(a) ==
    <<Lower(Strip(a.title)), a.year>>

\* line 27: if doi and doi in seen_doi
DoiSeen(doi, seen_doi) ==
    Truthy(doi) /\ doi \in seen_doi

\* a slip in lines 33-34: the title+year criterion applied to records with a DOI too
TitleYearSeenIgnoringDoi(doi, key, seen_title_year) ==
    Truthy(key[1]) /\ key \in seen_title_year

\* lines 33-34: if title_year_key[0] and title_year_key in seen_title_year:
\*                  if not doi or not doi.strip():
TitleYearSeen(doi, key, seen_title_year) ==
    /\ Truthy(key[1])
    /\ key \in seen_title_year
    /\ (~Truthy(doi) \/ ~Truthy(Strip(doi)))

\* one iteration of the loop of lines 22-44 over accumulator st
ExactStep(a, st) ==
    LET key == TitleYearKey(a)
    IN  IF DoiSeen(a.doi, st.seen_doi)
        THEN [st EXCEPT !.removed =
                  Append(@, [a EXCEPT !.removal_reason = ReasonExactDoi])]
        ELSE IF TitleYearSeen(a.doi, key, st.seen_title_year)
        THEN [st EXCEPT !.removed =
                  Append(@, [a EXCEPT !.removal_reason = ReasonExactTitleYear])]
        ELSE [st EXCEPT
                  !.unique = Append(@, a),
                  !.seen_doi = IF Truthy(a.doi) THEN @ \cup {a.doi} ELSE @,
                  !.seen_title_year =
                      IF Truthy(key[1]) THEN @ \cup {key} ELSE @]

RECURSIVE ExactLoop(_, _, _)
ExactLoop(arts, i, st) ==
    IF i > Len(arts) THEN st
    ELSE ExactLoop(arts, i + 1, ExactStep(arts[i], st))

\* a slip: seen_doi and seen_title_year kept at module level, so a later call
\* starts from what the earlier call kept
remove_exact_duplicates_stale_seen(arts) ==
    ExactLoop(arts, 1,
              [unique |-> <<>>, removed |-> <<>>,
               seen_doi |-> {unique[k].doi : k \in {n \in DOMAIN unique : Truthy(unique[n].doi)}},
               seen_title_year |-> {}])

\* remove_exact_duplicates(articles) -> (unique, removed)
remove_exact_duplicates(arts) ==
    ExactLoop(arts, 1,
              [unique |-> <<>>, removed |-> <<>>,
               seen_doi |-> {}, seen_title_year |-> {}])

\* the caller's list after the call: the removed dicts now carry their reason
AfterCall(arts, rem) ==
    [i \in 1..Len(arts) |->
        IF \E k \in DOMAIN rem : rem[k].id = arts[i].id
        THEN rem[CHOOSE k \in DOMAIN rem : rem[k].id = arts[i].id]
        ELSE arts[i]]

---------------------------------------------------------------------------
(* Inputs of the exact pass                                                *)

MaxExactLen == 3

DoiA == <<"1", "0", ".", "1", "/", "a">>
DoiB == <<"1", "0", ".", "1", "/", "b">>
DoiBlank == <<" ">>

TitleCovidMixed ==
    <<"C", "O", "V", "I", "D", "-", "1", "9", " ",
      "D", "e", "t", "e", "c", "t", "i", "o", "n">>
TitleCovidLower ==
    <<" ", "c", "o", "v", "i", "d", "-", "1", "9", " ",
      "d", "e", "t", "e", "c", "t", "i", "o", "n">>
TitleCovidPlain ==
    <<"c", "o", "v", "i", "d", " ", "1", "9", " ",
      "d", "e", "t", "e", "c", "t", "i", "o", "n">>

ExactShape(d, t, y) ==
    [doi |-> d, title |-> t, year |-> y]

\* every DOI form against every title form, and in a second year the shapes
\* that share a title or a DOI with one of the first year
ExactShapes ==
    {ExactShape(d, t, 2020) :
        d \in {NoText, DoiA}, t \in {NoText, TitleCovidMixed, TitleCovidLower, TitleCovidPlain}}
    \cup {ExactShape(DoiBlank, TitleCovidMixed, 2020),
          ExactShape(DoiBlank, NoText, 2020),
          ExactShape(DoiB, TitleCovidMixed, 2020),
          ExactShape(DoiB, TitleCovidPlain, 2020),
          ExactShape(NoText, TitleCovidLower, 2021),
          ExactShape(DoiA, TitleCovidMixed, 2021)}

\* an article dict built from the fields a source adapter sets; id is the
\* identity of the dict object, and a key that no stage has set yet is empty
MkArticle(i, sh) ==
    [id |-> i] @@ sh @@ ArticleDefaults

\* articles is a list of at most MaxExactLen dicts of these shapes
ExactInit ==
    /\ pc = "start"
    /\ \E n \in 0..MaxExactLen :
          \E f \in [1..n -> ExactShapes] :
              articles = [i \in 1..n |-> MkArticle(i, f[i])]
    /\ DedupIdle
    /\ ScreenIdle
    /\ FilterIdle
    /\ SearchIdle
    /\ SessionIdle

\* unique, removed = remove_exact_duplicates(articles)
RunExact ==
    /\ pc = "start"
    /\ LET r == remove_exact_duplicates(articles)
       IN  /\ unique' = r.unique
           /\ removed' = r.removed
           /\ articles' = AfterCall(articles, r.removed)
    /\ pc' = "ran"
    /\ UNCHANGED <<unique2, removed2, similarity_threshold, similarity_threshold2, screenVars, filterVars, searchVars, sessionVars>>

\* unique2, removed2 = remove_exact_duplicates(unique)
RerunExact ==
    /\ pc = "ran"
    /\ LET r == remove_exact_duplicates(unique)
       IN  /\ unique2' = r.unique
           /\ removed2' = r.removed
    /\ pc' = "reran"
    /\ UNCHANGED <<articles, unique, removed, similarity_threshold, similarity_threshold2, screenVars, filterVars, searchVars, sessionVars>>

ExactNext ==
    \/ RunExact
    \/ RerunExact

ExactSpec ==
    ExactInit /\ [][ExactNext]_vars

---------------------------------------------------------------------------
(* Properties of the exact pass                                            *)

Ids(list) ==
    {list[k].id : k \in DOMAIN list}

\* list is a subsequence of the ids 1..n in increasing order
InInputOrder(list) ==
    \A k \in 1..(Len(list) - 1) : list[k].id < list[k + 1].id

\* C1: applying remove_exact_duplicates to the kept list it returned yields the
\* same kept list (same records, same order) and an empty removed list.
C1_ExactIdempotent ==
    pc = "reran" => (unique2 = unique /\ removed2 = <<>>)

\* a run that removed something and kept at least two records was run again
C1_Witness ==
    pc = "reran" /\ Len(removed) >= 1 /\ Len(unique) >= 2

\* the key of the claim: the DOI when it is non-empty, else (normalized title, year)
ClaimKey(a) ==
    IF Truthy(a.doi) THEN <<"doi", a.doi>>
    ELSE <<"title_year", TitleYearKey(a)>>

\* C2 as stated: a record is kept iff no earlier record of the input has the
\* same key (DOI if non-empty, else normalized title and year); the others are
\* removed, tagged as exact duplicates. Stated for inputs all of whose records
\* have a title, the records the claim is about.
C2_KeyFirstWins ==
    (/\ pc = "ran"
     /\ \A i \in DOMAIN articles : Truthy(TitleYearKey(articles[i])[1]))
        => \A i \in DOMAIN articles :
              (articles[i].id \in Ids(unique))
                  <=> ~\E j \in 1..(i - 1) : ClaimKey(articles[j]) = ClaimKey(articles[i])

\* what makes record i an exact duplicate of an earlier kept record j in the code
ExactMatch(aj, ai) ==
    \/ Truthy(ai.doi) /\ aj.doi = ai.doi
    \/ /\ ~Truthy(Strip(ai.doi))
       /\ Truthy(TitleYearKey(ai)[1])
       /\ TitleYearKey(aj) = TitleYearKey(ai)

\* C2 amended: scanning in input order, a record is removed iff an earlier KEPT
\* record has the same non-empty DOI, or the record's own DOI is empty or blank,
\* its normalized title is non-empty and an earlier kept record (with or
\* without a DOI) has the same normalized title and year. Kept and removed
\* partition the input in input order, every removed record is tagged as an
\* exact duplicate, and of two records with the same DOI the first is kept.
C2_FirstKeptWins ==
    pc = "ran" =>
        /\ Ids(unique) \cup Ids(removed) = 1..Len(articles)
        /\ Ids(unique) \cap Ids(removed) = {}
        /\ Len(unique) + Len(removed) = Len(articles)
        /\ InInputOrder(unique) /\ InInputOrder(removed)
        /\ \A i \in DOMAIN articles :
              (articles[i].id \in Ids(removed))
                  <=> \E j \in 1..(i - 1) :
                        /\ articles[j].id \in Ids(unique)
                        /\ ExactMatch(articles[j], articles[i])
        /\ \A k \in DOMAIN removed :
              removed[k].removal_reason \in {ReasonExactDoi, ReasonExactTitleYear}
        /\ \A k \in DOMAIN unique : unique[k].removal_reason = ReasonNone
        /\ (Len(articles) = 2 /\ Truthy(articles[1].doi)
                /\ articles[1].doi = articles[2].doi)
               => (Ids(unique) = {1} /\ Ids(removed) = {2})

\* a record without DOI was removed because an earlier kept record WITH a DOI has
\* its title and year, and a record with a DOI survived a title+year match
C2_Witness ==
    /\ pc = "ran"
    /\ \E i \in DOMAIN articles, j \in DOMAIN articles :
          /\ j < i
          /\ articles[i].id \in Ids(removed)
          /\ articles[i].doi = NoText
          /\ Truthy(articles[j].doi)
          /\ articles[j].id \in Ids(unique)
          /\ TitleYearKey(articles[j]) = TitleYearKey(articles[i])
    /\ \E i \in DOMAIN articles, j \in DOMAIN articles :
          /\ j < i
          /\ Truthy(Strip(articles[i].doi))
          /\ articles[i].id \in Ids(unique)
          /\ articles[j].id \in Ids(unique)
          /\ TitleYearKey(articles[j]) = TitleYearKey(articles[i])

\* C10: two DOI-less records whose titles differ only in letter case or
\* punctuation (same identity fingerprint) and whose years are equal are exact
\* duplicates: the exact pass keeps the first and removes the second.
C10_FingerprintDuplicatesRemoved ==
    (/\ pc = "ran"
     /\ Len(articles) = 2
     /\ articles[1].doi = NoText /\ articles[2].doi = NoText
     /\ Truthy(TitleFingerprint(articles[1].title))
     /\ TitleFingerprint(articles[1].title) = TitleFingerprint(articles[2].title)
     /\ articles[1].year = articles[2].year)
        => (Ids(unique) = {1} /\ Ids(removed) = {2})

---------------------------------------------------------------------------
(* The sentence encoder and cosine similarity                              *)
(* (SentenceTransformer.encode and util.cos_sim, external to the repo)     *)

RECURSIVE SumVec(_, _)
\* the encoder's stand-in: a deterministic function of the text, the sum of one
\* integer direction per character ("d" points against "c", other characters
\* carry no direction)
CharVec(c) ==
    CASE c = "a" -> <<1, 0, 0>>
      [] c = "b" -> <<0, 1, 0>>
      [] c = "c" -> <<0, 0, 1>>
      [] c = "d" -> <<0, 0, -1>>
      [] OTHER -> <<0, 0, 0>>

SumVec(text, i) ==
    IF i > Len(text) THEN <<0, 0, 0>>
    ELSE LET v == CharVec(text[i])
             r == SumVec(text, i + 1)
         IN  <<v[1] + r[1], v[2] + r[2], v[3] + r[3]>>

\* model.encode(text)
Encode(text) ==
    SumVec(text, 1)

Dot(u, v) ==
    u[1] * v[1] + u[2] * v[2] + u[3] * v[3]

\* thresholds and similarities are in hundredths; the comparisons are exact
\* (cos = Dot(u, v) / sqrt(Dot(u, u) * Dot(v, v)), 0 for a zero vector)
Hundred == 100

\* cos_sim(u, v) >= t / 100, for t > 0
CosAtLeast(u, v, t) ==
    /\ Dot(u, v) > 0
    /\ Hundred * Hundred * Dot(u, v) * Dot(u, v) >= t * t * Dot(u, u) * Dot(v, v)

\* a slip: the comparison turned around
CosLess(u, v, t) ==
    ~CosAtLeast(u, v, t)

\* cos_sim(u, v) > t / 100, for t >= 0
CosGreater(u, v, t) ==
    /\ Dot(u, v) > 0
    /\ Hundred * Hundred * Dot(u, v) * Dot(u, v) > t * t * Dot(u, u) * Dot(v, v)

---------------------------------------------------------------------------
(* modules/deduplication.py : remove_semantic_duplicates                   *)

\* config.DUPLICATE_THRESHOLD = 0.85 and the 0.95 main.py passes
DUPLICATE_THRESHOLD == 85
MAIN_DUPLICATE_THRESHOLD == 95

\* line 90: f"Duplicado Semantico (> {similarity_threshold})"
ReasonSemantic(t) ==
    <<"Duplicado Semantico (> ", t, ")">>

\* line 61: a["title"] + " " + a.get("abstract", "")
DedupText(a) ==
    a.title \o <<" ">> \o a.abstract

\* lines 82: the similarity test against one kept embedding
ExceedsThreshold(emb, seen, t) ==
    CosGreater(emb, seen, t)

\* a slip: only the most recently kept embedding is compared
IsSemanticDupLastOnly(emb, seen_emb, t) ==
    /\ seen_emb # <<>>
    /\ ExceedsThreshold(emb, seen_emb[Len(seen_emb)], t)

\* lines 71-83: if seen_emb: ... if cosine_scores.max() > similarity_threshold
IsSemanticDup(emb, seen_emb, t) ==
    /\ seen_emb # <<>>
    /\ \E k \in DOMAIN seen_emb : ExceedsThreshold(emb, seen_emb[k], t)

\* one iteration of the loop of lines 60-91
SemanticStep(a, st, t) ==
    LET text == DedupText(a)
    IN  IF ~Truthy(Strip(text))
        THEN [st EXCEPT !.unique = Append(@, a)]
        ELSE LET emb == Encode(text)
             IN  IF ~IsSemanticDup(emb, st.seen_emb, t)
                 THEN [st EXCEPT !.unique = Append(@, a),
                                 !.seen_emb = Append(@, emb)]
                 ELSE [st EXCEPT !.removed =
                           Append(@, [a EXCEPT !.removal_reason = ReasonSemantic(t)])]

RECURSIVE SemanticLoop(_, _, _, _)
SemanticLoop(arts, i, st, t) ==
    IF i > Len(arts) THEN st
    ELSE SemanticLoop(arts, i + 1, SemanticStep(arts[i], st, t), t)

\* a slip: seen_emb kept at module level, so a later call starts from the
\* embeddings of what the earlier call kept
remove_semantic_duplicates_stale_seen(arts, t) ==
    LET texts == [k \in DOMAIN unique |-> DedupText(unique[k])]
        kept == SelectSeq(texts, LAMBDA x : Truthy(Strip(x)))
    IN  SemanticLoop(arts, 1,
                     [unique |-> <<>>, removed |-> <<>>,
                      seen_emb |-> [k \in DOMAIN kept |-> Encode(kept[k])]],
                     t)

\* remove_semantic_duplicates(articles, similarity_threshold) -> (unique, removed)
remove_semantic_duplicates(arts, t) ==
    SemanticLoop(arts, 1, [unique |-> <<>>, removed |-> <<>>, seen_emb |-> <<>>], t)

---------------------------------------------------------------------------
(* Inputs of the semantic pass                                             *)

MaxSemanticLen == 4

\* thresholds of the calls: the two the repository uses and one between them
Thresholds == {DUPLICATE_THRESHOLD, 90, MAIN_DUPLICATE_THRESHOLD}

TextA == <<"a">>
TextB == <<"b">>
TextAB == <<"a", "b">>
TextABB == <<"a", "b", "b">>
TextCC == <<"c", "c">>
TextC3 == <<"c", "c", "c">>
TextAC3 == <<"a", " ", "c", "c", "c">>

SemShape(t, ab) ==
    [title |-> t, abstract |-> ab]

\* title and abstract of the articles: embeddings (1,0,3), (0,1,3), (1,1,3),
\* (1,2,2), (1,0,3) again from a title alone, and an article without text.
\* cos((1,0,3),(0,1,3)) = 0.9 exactly; cos((1,1,3),(1,2,2)) = 0.9045;
\* cos((1,1,3),(1,0,3)) = cos((1,1,3),(0,1,3)) = 0.9535
SemanticShapes ==
    {SemShape(TextA, TextC3), SemShape(TextB, TextC3),
     SemShape(TextAB, TextC3), SemShape(TextABB, TextCC),
     SemShape(TextAC3, NoText), SemShape(<<" ">>, NoText)}

SemanticInit ==
    /\ pc = "start"
    /\ \E n \in 0..MaxSemanticLen :
          \E f \in [1..n -> SemanticShapes] :
              articles = [i \in 1..n |-> MkArticle(i, f[i])]
    /\ similarity_threshold \in Thresholds
    /\ similarity_threshold2 \in {t \in Thresholds : t > similarity_threshold}
    /\ unique = <<>>
    /\ removed = <<>>
    /\ unique2 = <<>>
    /\ removed2 = <<>>
    /\ ScreenIdle
    /\ FilterIdle
    /\ SearchIdle
    /\ SessionIdle

\* unique, removed = remove_semantic_duplicates(articles, T1)
RunSemanticLow ==
    /\ pc = "start"
    /\ LET r == remove_semantic_duplicates(articles, similarity_threshold)
       IN  /\ unique' = r.unique
           /\ removed' = r.removed
           /\ articles' = AfterCall(articles, r.removed)
    /\ pc' = "low"
    /\ UNCHANGED <<unique2, removed2, similarity_threshold, similarity_threshold2, screenVars, filterVars, searchVars, sessionVars>>

\* unique2, removed2 = remove_semantic_duplicates(articles, T2), the same list
RunSemanticHigh ==
    /\ pc = "low"
    /\ LET r == remove_semantic_duplicates(articles, similarity_threshold2)
       IN  /\ unique2' = r.unique
           /\ removed2' = r.removed
           /\ articles' = AfterCall(articles, r.removed)
    /\ pc' = "done"
    /\ UNCHANGED <<unique, removed, similarity_threshold, similarity_threshold2, screenVars, filterVars, searchVars, sessionVars>>

SemanticNext ==
    \/ RunSemanticLow
    \/ RunSemanticHigh

SemanticSpec ==
    SemanticInit /\ [][SemanticNext]_vars

---------------------------------------------------------------------------
(* Properties of the semantic pass                                         *)

\* C3 as stated: with T1 < T2 the run with T2 removes no more articles than
\* the run with T1.
C3_RemovedCountMonotone ==
    pc = "done" => Len(removed2) <= Len(removed)

\* position of the first removed article of a run, past the end when none
FirstRemoved(rem) ==
    IF rem = <<>> THEN Len(articles) + 1
    ELSE CHOOSE i \in Ids(rem) : \A j \in Ids(rem) : i <= j

\* C3 amended: with T1 < T2 the run with T2 keeps every article up to the first
\* one the run with T1 removes (so a list T1 leaves whole, T2 leaves whole);
\* after that first removal the number removed may grow with the threshold.
C3_FirstRemovalMonotone ==
    pc = "done" => FirstRemoved(removed2) >= FirstRemoved(removed)

\* the T2 run removed something, later than the T1 run's first removal, and
\* removed more than the T1 run
C3_Witness ==
    /\ pc = "done"
    /\ removed2 # <<>>
    /\ FirstRemoved(removed2) > FirstRemoved(removed)
    /\ Len(removed2) > Len(removed)

HasText(a) ==
    Truthy(Strip(DedupText(a)))

\* article i is removed iff it has text and Similar(e_i, e_j, t) for some
\* earlier kept article j with text; the others are kept, in input order
SemanticRunIs(kept, rem, t, Similar(_, _, _)) ==
    LET text == [i \in DOMAIN articles |-> DedupText(articles[i])]
        has == [i \in DOMAIN articles |-> Truthy(Strip(text[i]))]
        emb == [i \in DOMAIN articles |-> Encode(text[i])]
        keptIds == Ids(kept)
        remIds == Ids(rem)
    IN  /\ keptIds \cup remIds = 1..Len(articles)
        /\ keptIds \cap remIds = {}
        /\ Len(kept) + Len(rem) = Len(articles)
        /\ InInputOrder(kept) /\ InInputOrder(rem)
        /\ \A i \in DOMAIN articles :
              (i \in remIds)
                  <=> /\ has[i]
                      /\ \E j \in 1..(i - 1) :
                            j \in keptIds /\ has[j] /\ Similar(emb[i], emb[j], t)

\* the status of an article does not depend on the articles after it: without
\* the last article of the list the others fare the same
PrefixIndependent(kept, t) ==
    articles # <<>> =>
        Ids(remove_semantic_duplicates(SubSeq(articles, 1, Len(articles) - 1), t).unique)
            = Ids(kept) \ {Len(articles)}

\* C4 as stated: an article is rejected iff its maximum cosine similarity to the
\* articles already kept is >= the threshold.
C4_RejectAtLeastThreshold ==
    pc = "low" => SemanticRunIs(unique, removed, similarity_threshold, CosAtLeast)

\* C4 amended: articles are processed in input order and an article is rejected
\* iff the maximum cosine similarity between its embedding and the embeddings
\* of ALL articles already kept is strictly greater than the threshold (a
\* similarity equal to the threshold keeps the article); otherwise it is kept
\* and joins the comparison set; its status never depends on later articles.
C4_RejectAboveThreshold ==
    /\ pc \in {"low", "done"} =>
          /\ SemanticRunIs(unique, removed, similarity_threshold, CosGreater)
          /\ PrefixIndependent(unique, similarity_threshold)
    /\ pc = "done" =>
          /\ SemanticRunIs(unique2, removed2, similarity_threshold2, CosGreater)
          /\ PrefixIndependent(unique2, similarity_threshold2)

\* an article was rejected for an embedding kept two or more places before it
\* while the one kept just before it is dissimilar, and another article was kept
\* although its similarity to a kept one equals the threshold
C4_Witness ==
    /\ pc = "low"
    /\ \E i \in Ids(removed), j \in Ids(unique), k \in Ids(unique) :
          /\ j < k /\ k < i
          /\ HasText(articles[j]) /\ HasText(articles[k])
          /\ CosGreater(Encode(DedupText(articles[i])),
                        Encode(DedupText(articles[j])), similarity_threshold)
          /\ \A m \in Ids(unique) :
                (m < i /\ m # j /\ HasText(articles[m])) =>
                    ~CosGreater(Encode(DedupText(articles[i])),
                                Encode(DedupText(articles[m])), similarity_threshold)
    /\ \E i \in Ids(unique), j \in Ids(unique) :
          /\ j < i
          /\ HasText(articles[i]) /\ HasText(articles[j])
          /\ CosAtLeast(Encode(DedupText(articles[i])),
                        Encode(DedupText(articles[j])), similarity_threshold)

---------------------------------------------------------------------------
(* modules/screening.py : screen_articles                                  *)

\* similarities are kept in thousandths (round(sim, 3)), percentages in
\* hundredths (int(sim * 100)); both are computed exactly from the integer
\* vectors: cos = d / sqrt(n) with d = Dot(q, e), n = Dot(q, q) * Dot(e, e)
Thousand == 1000

\* line 111
THRESHOLD == 70
\* lines 119 and 121
HIGH_CUTOFF == 85
MEDIUM_CUTOFF == 75
\* line 62: full_text[:15000]
FULL_TEXT_CHARS == 15000

RelevanceHigh == "Altamente relevante"
RelevanceMedium == "Muy relevante"
RelevanceLow == "Relevante"
RelevancePoor == "Poco relevante"
RelevanceNoText == "Sin texto"
ReasonNoContent == <<"Sin contenido valido">>

\* line 128: f"Relevancia insuficiente ({int(sim*100)}% < {int(THRESHOLD*100)}%)"
ReasonLowRelevance(pct) ==
    <<"Relevancia insuficiente (", pct, "% < ", THRESHOLD, "%)">>

RECURSIVE LargestWith(_, _, _, _, _)
\* the largest k in lo..hi with (2k - 1)^2 * n <= (2 * scale * d)^2 when half,
\* with k^2 * n <= (scale * d)^2 otherwise; lo satisfies it
LargestWith(d, n, lo, hi, half) ==
    IF lo >= hi THEN lo
    ELSE LET mid == (lo + hi + 1) \div 2
             fits == IF half
                     THEN (2 * mid - 1) * (2 * mid - 1) * n
                              <= 4 * Thousand * Thousand * d * d
                     ELSE mid * mid * n <= Hundred * Hundred * d * d
         IN  IF fits THEN LargestWith(d, n, mid, hi, half)
             ELSE LargestWith(d, n, lo, mid - 1, half)

Abs(x) ==
    IF x < 0 THEN 0 - x ELSE x

Sign(x) ==
    IF x < 0 THEN 0 - 1 ELSE 1

\* line 115: round(sim, 3), in thousandths
RoundedSim(q, e) ==
    LET d == Dot(q, e)
        n == Dot(q, q) * Dot(e, e)
    IN  IF d = 0 \/ n = 0 THEN 0
        ELSE Sign(d) * LargestWith(Abs(d), n, 0, Thousand, TRUE)

\* line 128: int(sim * 100), truncated towards zero
PercentOf(q, e) ==
    LET d == Dot(q, e)
        n == Dot(q, q) * Dot(e, e)
    IN  IF d = 0 \/ n = 0 THEN 0
        ELSE Sign(d) * LargestWith(Abs(d), n, 0, Hundred, FALSE)

\* lines 56-69: full_text > abstract > title
ScreenText(a) ==
    IF Truthy(a.full_text)
    THEN a.title \o <<" ">> \o Prefix(a.full_text, FULL_TEXT_CHARS)
    ELSE IF Truthy(a.abstract)
    THEN a.title \o <<" ">> \o a.abstract
    ELSE a.title

TextSource(a) ==
    IF Truthy(a.full_text) THEN "PDF"
    ELSE IF Truthy(a.abstract) THEN "Abstract"
    ELSE "Title only"

\* line 71: if text.strip()
IsValid(a) ==
    Truthy(Strip(ScreenText(a)))

\* lines 76-78: the article without text
MarkNoText(a) ==
    [a EXCEPT !.similarity = <<0>>,
              !.relevance = RelevanceNoText,
              !.excluded_reason = ReasonNoContent]

\* a slip: the cut-off compared strictly
PassesStrictly(q, e) ==
    CosGreater(q, e, THRESHOLD)

\* line 118: sim >= THRESHOLD
Passes(q, e) ==
    CosAtLeast(q, e, THRESHOLD)

\* a slip: only an article with a link may pass
ScoreLinkedOnly(a, q) ==
    LET e == Encode(ScreenText(a))
        scored == [a EXCEPT !.similarity = <<RoundedSim(q, e)>>,
                            !.text_source = TextSource(a)]
    IN  IF Passes(q, e) /\ (Truthy(a.url) \/ Truthy(a.pdf_url))
        THEN [scored EXCEPT !.relevance = RelevanceLow]
        ELSE [scored EXCEPT !.relevance = RelevancePoor,
                            !.excluded_reason = ReasonLowRelevance(PercentOf(q, e))]

\* lines 114-129: the article with text, scored against the query embedding
Score(a, q) ==
    LET e == Encode(ScreenText(a))
        scored == [a EXCEPT !.similarity = <<RoundedSim(q, e)>>,
                            !.text_source = TextSource(a)]
    IN  IF Passes(q, e)
        THEN [scored EXCEPT !.relevance =
                  IF CosAtLeast(q, e, HIGH_CUTOFF) THEN RelevanceHigh
                  ELSE IF CosAtLeast(q, e, MEDIUM_CUTOFF) THEN RelevanceMedium
                  ELSE RelevanceLow]
        ELSE [scored EXCEPT !.relevance = RelevancePoor,
                            !.excluded_reason = ReasonLowRelevance(PercentOf(q, e))]

\* line 131: list.sort(key=similarity, reverse=True) is stable: an element goes
\* behind every element whose similarity is not smaller
RECURSIVE InsertDescBeforeEquals(_, _)
RECURSIVE InsertDesc(_, _)
\* a slip: the element goes in front of the elements of equal similarity
InsertDescBeforeEquals(sorted, a) ==
    IF sorted = <<>> THEN <<a>>
    ELSE IF Head(sorted).similarity[1] > a.similarity[1]
    THEN <<Head(sorted)>> \o InsertDescBeforeEquals(Tail(sorted), a)
    ELSE <<a>> \o sorted

InsertDesc(sorted, a) ==
    IF sorted = <<>> THEN <<a>>
    ELSE IF Head(sorted).similarity[1] >= a.similarity[1]
    THEN <<Head(sorted)>> \o InsertDesc(Tail(sorted), a)
    ELSE <<a>> \o sorted

RECURSIVE SortDesc(_, _, _)
SortDesc(list, i, sorted) ==
    IF i > Len(list) THEN sorted
    ELSE SortDesc(list, i + 1, InsertDesc(sorted, list[i]))

IsRelevant(a) ==
    a.relevance \in {RelevanceHigh, RelevanceMedium, RelevanceLow}

IsPoor(a) ==
    a.relevance = RelevancePoor

\* screen_articles(articles, query_input): the list returned, the list exported
\* as excluded, and the caller's list with the dicts as the call leaves them
screen_articles(arts, qtext, fault) ==
    LET nothing == [relevant |-> <<>>, excluded |-> <<>>, articles |-> arts]
        \* lines 44-47: get_embedding returns None for an empty text or an error
        q_emb_none == ~Truthy(Strip(qtext)) \/ fault = "query"
        marked == [i \in DOMAIN arts |->
                      IF IsValid(arts[i]) THEN arts[i] ELSE MarkNoText(arts[i])]
        q == Encode(qtext)
        scored == [i \in DOMAIN arts |->
                      IF IsValid(arts[i]) THEN Score(arts[i], q) ELSE marked[i]]
        valid == SelectSeq(scored, IsValid)
    IN  IF arts = <<>> \/ q_emb_none THEN nothing
        ELSE IF \A i \in DOMAIN arts : ~IsValid(arts[i])
        THEN [nothing EXCEPT !.articles = marked]
        \* lines 93-102: the batch encoding raised
        ELSE IF fault = "batch" THEN [nothing EXCEPT !.articles = marked]
        ELSE [relevant |-> SortDesc(SelectSeq(valid, IsRelevant), 1, <<>>),
              excluded |-> SelectSeq(valid, IsPoor),
              articles |-> scored]

MaxScreenLen == 3

TextAC == <<"a", "c">>
TextAAC == <<"a", "a", "c">>
TextC == <<"c">>
TextD == <<"d">>
TextA7B == <<"a", "a", "a", "a", "a", "a", "a", "b">>
LinkU == <<"u">>
LinkP == <<"p">>

ScreenShape(t, ab, ft, u, p) ==
    [title |-> t, abstract |-> ab, full_text |-> ft, url |-> u, pdf_url |-> p]

\* against the query "ac", embedding (1,0,1): "ac" 1.0, "aac" 0.949,
\* "a" and "c" 0.707, "aaaaaaab" 0.7 exactly, "ab" 0.5, "d" -0.707,
\* "b" with the full text "ac" 0.816, "a" with the abstract "c" 1.0
ScreenShapes ==
    {ScreenShape(TextAC, NoText, NoText, LinkU, NoText),
     ScreenShape(TextAAC, NoText, NoText, NoText, NoText),
     ScreenShape(TextA, NoText, NoText, LinkU, NoText),
     ScreenShape(TextC, NoText, NoText, NoText, LinkP),
     ScreenShape(TextA7B, NoText, NoText, LinkU, LinkP),
     ScreenShape(TextAB, NoText, NoText, LinkU, NoText),
     ScreenShape(TextD, NoText, NoText, NoText, NoText),
     ScreenShape(<<" ">>, NoText, NoText, LinkU, NoText),
     ScreenShape(TextB, TextD, TextAC, NoText, NoText),
     ScreenShape(TextA, TextC, NoText, NoText, NoText)}

\* the text of the query after translation or joining of the terms
QueryTexts == {TextAC, <<" ">>}

\* which call of the encoder raises: none, the query's, the batch's
EncodeFaults == {"none", "query", "batch"}

ScreenInit ==
    /\ pc = "start"
    /\ \E n \in 0..MaxScreenLen :
          \E f \in [1..n -> ScreenShapes] :
              articles = [i \in 1..n |-> MkArticle(i, f[i])]
    /\ query_text \in QueryTexts
    /\ encode_fault \in EncodeFaults
    /\ relevant_articles = <<>>
    /\ excluded_articles = <<>>
    /\ translate_outcome = "none"
    /\ DedupIdle
    /\ FilterIdle
    /\ SearchIdle
    /\ SessionIdle

\* relevant_articles = screen_articles(articles, query)
RunScreen ==
    /\ pc = "start"
    /\ LET r == screen_articles(articles, query_text, encode_fault)
       IN  /\ relevant_articles' = r.relevant
           /\ excluded_articles' = r.excluded
           /\ articles' = r.articles
    /\ pc' = "screened"
    /\ UNCHANGED <<dedupVars, query_text, encode_fault, translate_outcome, filterVars,
                   searchVars, sessionVars>>

ScreenNext ==
    RunScreen

ScreenSpec ==
    ScreenInit /\ [][ScreenNext]_vars

---------------------------------------------------------------------------
(* Properties of screen_articles                                           *)

HasUsableUrl(a) ==
    Truthy(a.url) \/ Truthy(a.pdf_url)

\* the embeddings were produced
Embedded ==
    /\ Truthy(Strip(query_text))
    /\ encode_fault = "none"

AtLeastFloor(a) ==
    /\ IsValid(a)
    /\ CosAtLeast(Encode(query_text), Encode(ScreenText(a)), THRESHOLD)

\* cos(query, a) > cos(query, b), for cos(query, b) > 0
ScoresHigher(a, b) ==
    LET q == Encode(query_text)
        ea == Encode(ScreenText(a))
        eb == Encode(ScreenText(b))
    IN  /\ Dot(q, ea) > 0
        /\ Dot(q, ea) * Dot(q, ea) * Dot(eb, eb) > Dot(q, eb) * Dot(q, eb) * Dot(ea, ea)

\* the scenario of the selection policy: every article has text, the linked
\* articles are at or above the floor, the unlinked ones score higher than
\* each of them, and there is at least one of each
PreferenceScenario ==
    /\ \A i \in DOMAIN articles : IsValid(articles[i])
    /\ \E i \in DOMAIN articles : HasUsableUrl(articles[i])
    /\ \E i \in DOMAIN articles : ~HasUsableUrl(articles[i])
    /\ \A i \in DOMAIN articles :
          IF HasUsableUrl(articles[i])
          THEN AtLeastFloor(articles[i])
          ELSE \A j \in DOMAIN articles :
                  HasUsableUrl(articles[j]) => ScoresHigher(articles[i], articles[j])

C7_SimilarityInUnitRange ==
    pc = "screened" =>
        \A i \in DOMAIN articles :
            articles[i].similarity # <<>> =>
                /\ articles[i].similarity[1] >= 0
                /\ articles[i].similarity[1] <= Thousand

\* C15: the list screen_articles returns is in descending order of the stored
\* similarity, and entries of equal similarity are in their input order
C15_SortedDescendingStable ==
    pc = "screened" =>
        \A k, l \in DOMAIN relevant_articles :
            k < l =>
                /\ relevant_articles[k].similarity[1] >= relevant_articles[l].similarity[1]
                /\ relevant_articles[k].similarity = relevant_articles[l].similarity
                       => relevant_articles[k].id < relevant_articles[l].id

\* two entries tie and the sort moved a later, higher-scoring input in front
C15_Witness ==
    /\ pc = "screened"
    /\ Len(relevant_articles) = MaxScreenLen
    /\ \E k, l \in DOMAIN relevant_articles :
          /\ k < l
          /\ relevant_articles[k].similarity = relevant_articles[l].similarity
    /\ \E k, l \in DOMAIN relevant_articles :
          /\ k < l
          /\ relevant_articles[k].id > relevant_articles[l].id

\* C24: when the encoder fails on an article's text during screening, the
\* affected article is excluded with a reason attached and the others are
\* still scored: every article with text ends with a similarity or with an
\* exclusion reason, whichever article the failure was about
C24_EncodingFailureIsPerArticle ==
    (pc = "screened" /\ encode_fault = "batch" /\ Truthy(Strip(query_text))) =>
        \A i \in DOMAIN articles :
            IsValid(articles[i]) =>
                \/ articles[i].similarity # <<>>
                \/ articles[i].excluded_reason # ReasonNone

\* utils/export.py line 83: article.get('exclusion_reason', ''), the reason
\* column of a row of the log of excluded articles
ExportedReason(a) ==
    IF "exclusion_reason" \in DOMAIN a THEN a.exclusion_reason ELSE NoText

\* the band of the fixed cut-offs 0.85 and 0.75 for an article at the floor
BandOf(a) ==
    LET q == Encode(query_text)
        e == Encode(ScreenText(a))
    IN  IF CosAtLeast(q, e, HIGH_CUTOFF) THEN RelevanceHigh
        ELSE IF CosAtLeast(q, e, MEDIUM_CUTOFF) THEN RelevanceMedium
        ELSE RelevanceLow

\* C16: after a screening run every retained article has a numeric similarity
\* and the relevance band of the fixed cut-offs, and every rejected article
\* has an exclusion_reason citing its score against the threshold; stated for
\* the runs in which the embeddings were produced and, of the rejected
\* articles, for those that were scored
C16_RetainedBandedRejectedExplained ==
    (pc = "screened" /\ Embedded) =>
        /\ \A k \in DOMAIN relevant_articles :
              /\ relevant_articles[k].similarity # <<>>
              /\ relevant_articles[k].relevance = BandOf(relevant_articles[k])
        /\ \A k \in DOMAIN excluded_articles :
              ExportedReason(excluded_articles[k]) =
                  ReasonLowRelevance(PercentOf(Encode(query_text),
                                               Encode(ScreenText(excluded_articles[k]))))

---------------------------------------------------------------------------
(* modules/filters.py : apply_filters, is_open_access, detect_language     *)

\* sub in s
Contains(s, sub) ==
    \E i \in 1..(Len(s) - Len(sub) + 1) : SubSeq(s, i, i + Len(sub) - 1) = sub

\* s.startswith(prefix)
StartsWith(s, prefix) ==
    /\ Len(s) >= Len(prefix)
    /\ SubSeq(s, 1, Len(prefix)) = prefix

\* line 110
oa_indicators ==
    <<<<"o", "p", "e", "n">>, <<"a", "r", "x", "i", "v">>,
      <<"p", "l", "o", "s">>, <<"b", "i", "o", "r", "x", "i", "v">>,
      <<"m", "e", "d", "r", "x", "i", "v">>, <<"s", "s", "r", "n">>,
      <<"r", "e", "s", "e", "a", "r", "c", "h", "g", "a", "t", "e">>>>

\* lines 116-122
oa_doi_prefixes ==
    <<<<"1", "0", ".", "1", "3", "7", "1">>,
      <<"1", "0", ".", "3", "3", "8", "9">>,
      <<"1", "0", ".", "1", "1", "8", "6">>,
      <<"1", "0", ".", "1", "0", "3", "8">>,
      <<"1", "0", ".", "7", "5", "5", "4">>>>

\* lines 95-126
is_open_access(article) ==
    \/ article.isOpenAccess
    \/ \E k \in DOMAIN oa_indicators : Contains(Lower(article.url), oa_indicators[k])
    \/ \E k \in DOMAIN oa_doi_prefixes :
          StartsWith(Lower(article.doi), oa_doi_prefixes[k])

\* lines 144-147
english_words ==
    <<<<"t", "h", "e">>, <<"a", "n", "d">>, <<"o", "f">>, <<"i", "n">>,
      <<"t", "o">>, <<"w", "i", "t", "h">>, <<"f", "o", "r">>,
      <<"t", "h", "i", "s">>, <<"t", "h", "a", "t">>, <<"w", "a", "s">>>>

spanish_words ==
    <<<<"d", "e">>, <<"l", "a">>, <<"e", "l">>, <<"e", "n">>,
      <<"l", "o", "s">>, <<"l", "a", "s">>, <<"c", "o", "n">>,
      <<"p", "o", "r">>, <<"p", "a", "r", "a">>, <<"q", "u", "e">>>>

portuguese_words ==
    <<<<"d", "a">>, <<"d", "o">>, <<"e", "m">>, <<"p", "a", "r", "a">>,
      <<"c", "o", "m">>, <<"u", "m", "a">>, <<"d", "o", "s">>,
      <<"d", "a", "s">>, <<"p", "e", "l", "a">>, <<"p", "e", "l", "o">>>>

french_words ==
    <<<<"l", "e">>, <<"d", "e">>, <<"e", "t">>, <<"l", "a">>, <<"u", "n">>,
      <<"u", "n", "e">>, <<"d", "e", "s">>, <<"l", "e", "s">>,
      <<"d", "a", "n", "s">>, <<"p", "o", "u", "r">>>>

LangNone == <<>>
LangEn == <<"e", "n">>
LangEs == <<"e", "s">>
LangPt == <<"p", "t">>
LangFr == <<"f", "r">>

\* line 165: at least 3 matches
MIN_LANGUAGE_MATCHES == 3

\* lines 150-153: sum(1 for word in words if f" {word} " in text)
WordCount(words, text) ==
    Cardinality({k \in DOMAIN words : Contains(text, <<" ">> \o words[k] \o <<" ">>)})

\* lines 140-169 on the text of line 138; max() returns the first language, in
\* the order en, es, pt, fr, that has the largest count
LanguageOfText(text) ==
    IF ~Truthy(Strip(text)) THEN LangNone
    ELSE LET en == WordCount(english_words, text)
             es == WordCount(spanish_words, text)
             pt == WordCount(portuguese_words, text)
             fr == WordCount(french_words, text)
             max_lang == IF en >= es /\ en >= pt /\ en >= fr THEN <<LangEn, en>>
                         ELSE IF es >= pt /\ es >= fr THEN <<LangEs, es>>
                         ELSE IF pt >= fr THEN <<LangPt, pt>>
                         ELSE <<LangFr, fr>>
         IN  IF max_lang[2] >= MIN_LANGUAGE_MATCHES THEN max_lang[1] ELSE LangNone

\* lines 136-138
LanguageText(article) ==
    Lower(article.title) \o <<" ">> \o Lower(article.abstract)


\* a slip: the lower bound exclusive
KeepsStartYearExclusive(a, sy) ==
    a.year > sy

\* line 41: (a.get("year") or 0) >= start_year; year is 0 for None
KeepsStartYear(a, sy) ==
    a.year >= sy

\* line 49
KeepsEndYear(a, ey) ==
    a.year <= ey

\* line 57: a.get("journal", "").strip() in journals
KeepsJournal(a, js) ==
    Strip(a.journal) \in js

MaxFilterLen == 4

JournalNat == <<"N", "a", "t">>
JournalNatPadded == <<" ", "N", "a", "t", " ">>
JournalNatLower == <<"n", "a", "t">>
JournalCel == <<"C", "e", "l">>
UrlArxiv == <<"a", "r", "x", "i", "v", ".", "o", "r", "g", "/", "1">>
UrlOpen == <<"x", "/", "O", "p", "e", "n">>
UrlPlain == <<"x", ".", "o", "r", "g", "/", "1">>
DoiPlos == <<"1", "0", ".", "1", "3", "7", "1", "/", "j">>
DoiPlosPadded == <<" ", "1", "0", ".", "1", "3", "7", "1", "/", "j">>
DoiPlain == <<"1", "0", ".", "1", "0", "0", "0", "/", "j">>
AbstractEn == <<"a", " ", "t", "h", "e", " ", "b", " ", "a", "n", "d", " ", "c", " ", "o", "f", " ", "d">>
AbstractEnUpper == <<"A", " ", "T", "H", "E", " ", "B", " ", "A", "N", "D", " ", "C", " ", "O", "F", " ", "D">>
AbstractEnShort == <<"a", " ", "t", "h", "e", " ", "b", " ", "a", "n", "d", " ", "c">>
AbstractEs == <<"a", " ", "d", "e", " ", "b", " ", "l", "a", " ", "c", " ", "e", "l", " ", "d">>
AbstractEsFr == <<"a", " ", "d", "e", " ", "b", " ", "l", "a", " ", "c", " ", "e", "l", " ", "d", " ", "l", "e", " ", "e">>

FilterShape(y, j, u, d, flag, t, ab) ==
    [year |-> y, journal |-> j, url |-> u, doi |-> d, isOpenAccess |-> flag,
     title |-> t, abstract |-> ab]

\* modules/search_engine.py lines 97, 210, 257: "open_access": True, the flag
\* the source adapters put on the records they return
FlaggedByAdapter(sh) ==
    [open_access |-> TRUE] @@ sh

\* years 2018 to 2023 and unknown; journals in, beside and out of the list;
\* open access by the flag, by the URL, by the DOI prefix and not at all;
\* flagged by the adapter with a DOI prefix of the list and with a plain URL
\* and DOI; English, Spanish, a Spanish-French tie, too few words, no text
FilterShapes ==
    {FilterShape(2018, JournalNat, NoText, NoText, TRUE, <<"x">>, AbstractEn),
     FilterShape(2020, JournalNatPadded, UrlArxiv, NoText, FALSE, <<"x">>, AbstractEs),
     FlaggedByAdapter(
         FilterShape(2021, JournalCel, NoText, DoiPlos, FALSE, <<"x">>, AbstractEnShort)),
     FlaggedByAdapter(
         FilterShape(2023, NoText, UrlPlain, DoiPlain, FALSE, <<"X">>, AbstractEnUpper)),
     FilterShape(2022, JournalNatLower, UrlOpen, NoText, FALSE, <<"x">>, AbstractEsFr),
     FilterShape(0, JournalNat, NoText, DoiPlosPadded, FALSE, NoText, NoText)}

\* detect_language on the texts of these articles, computed once
DetectedLanguage ==
    [text \in {LanguageText(sh) : sh \in FilterShapes} |-> LanguageOfText(text)]

\* lines 129-169
detect_language(article) ==
    LET text == LanguageText(article)
    IN  IF text \in DOMAIN DetectedLanguage THEN DetectedLanguage[text]
        ELSE LanguageOfText(text)

\* line 73
KeepsLanguage(a, lang) ==
    detect_language(a) = lang

\* lines 32-92: one list comprehension after the other, each under its "if"
apply_filters(arts, sy, ey, oa, lang, js) ==
    LET FromStart(a) == KeepsStartYear(a, sy)
        ToEnd(a) == KeepsEndYear(a, ey)
        InJournals(a) == KeepsJournal(a, js)
        InLanguage(a) == KeepsLanguage(a, lang)
        f1 == IF sy # 0 THEN SelectSeq(arts, FromStart) ELSE arts
        f2 == IF ey # 0 THEN SelectSeq(f1, ToEnd) ELSE f1
        f3 == IF js # {} THEN SelectSeq(f2, InJournals) ELSE f2
        f4 == IF oa THEN SelectSeq(f3, is_open_access) ELSE f3
        f5 == IF Truthy(lang) THEN SelectSeq(f4, InLanguage) ELSE f4
    IN  f5

\* the keys of the article that hold None; a key that is absent, like one
\* that holds None, has the empty value in the record
IsNone(a, key) ==
    key \in a.null_keys

\* line 56: a.get("journal", "").strip() on None
JournalRaises(a) ==
    IsNone(a, "journal")

\* lines 105-124: unless the flag returns first, article.get("url", "").lower()
\* on None, then, when no indicator is in the URL, article.get("doi", "").lower()
OpenAccessRaises(a) ==
    /\ ~a.isOpenAccess
    /\ \/ IsNone(a, "url")
       \/ /\ ~\E k \in DOMAIN oa_indicators :
                  Contains(Lower(a.url), oa_indicators[k])
          /\ IsNone(a, "doi")

\* lines 136-137: article.get("abstract", "").lower(), article.get("title", "").lower()
LanguageRaises(a) ==
    IsNone(a, "abstract") \/ IsNone(a, "title")

\* apply_filters raises AttributeError: a comprehension of lines 54-75 meets
\* an article on which its test raises, among those the earlier criteria kept
apply_filters_raises(arts, sy, ey, oa, lang, js) ==
    LET f2 == apply_filters(arts, sy, ey, FALSE, LangNone, {})
        f3 == apply_filters(arts, sy, ey, FALSE, LangNone, js)
        f4 == apply_filters(arts, sy, ey, oa, LangNone, js)
    IN  \/ js # {} /\ \E k \in DOMAIN f2 : JournalRaises(f2[k])
        \/ oa /\ \E k \in DOMAIN f3 : OpenAccessRaises(f3[k])
        \/ Truthy(lang) /\ \E k \in DOMAIN f4 : LanguageRaises(f4[k])

StartYears == {0, 2020}
EndYears == {0, 2022}
JournalLists == {{}, {JournalNat}}
Languages == {LangNone, LangEn, LangEs}

FilterInit ==
    /\ pc = "start"
    /\ \E n \in 0..MaxFilterLen :
          \E f \in [1..n -> FilterShapes] :
              articles = [i \in 1..n |-> MkArticle(i, f[i])]
    /\ start_year \in StartYears
    /\ end_year \in EndYears
    /\ journals \in JournalLists
    /\ open_access \in BOOLEAN
    /\ language \in Languages
    /\ filtered = <<>>
    /\ DedupIdle
    /\ ScreenIdle
    /\ SearchIdle
    /\ SessionIdle

\* filtered = apply_filters(articles, start_year, end_year, open_access=..., ...)
RunFilters ==
    /\ pc = "start"
    /\ IF apply_filters_raises(articles, start_year, end_year, open_access,
                               language, journals)
       THEN /\ pc' = "raised"
            /\ UNCHANGED filtered
       ELSE /\ pc' = "filtered"
            /\ filtered' = apply_filters(articles, start_year, end_year, open_access,
                                         language, journals)
    /\ UNCHANGED <<articles, dedupVars, screenVars, searchVars, sessionVars,
                   start_year, end_year, journals, open_access, language>>

FilterNext ==
    RunFilters

FilterSpec ==
    FilterInit /\ [][FilterNext]_vars

MaxNullLen == 2

WithNone(sh, keys) ==
    [null_keys |-> keys] @@ sh

\* a complete article in English; the same with None for the journal, the
\* URL, the title, the abstract, the year; with None for the DOI beside a
\* plain URL; with None for URL and DOI under the flag; with no key at all
NullFilterShapes ==
    {FilterShape(2021, JournalNat, UrlArxiv, DoiPlos, FALSE, <<"x">>, AbstractEn),
     WithNone(FilterShape(2021, NoText, UrlArxiv, DoiPlos, FALSE, <<"x">>, AbstractEn),
              {"journal"}),
     WithNone(FilterShape(2021, JournalNat, NoText, DoiPlos, FALSE, <<"x">>, AbstractEn),
              {"url"}),
     WithNone(FilterShape(2021, JournalNat, UrlPlain, NoText, FALSE, <<"x">>, AbstractEn),
              {"doi"}),
     WithNone(FilterShape(2021, JournalNat, UrlArxiv, DoiPlos, FALSE, NoText, AbstractEn),
              {"title"}),
     WithNone(FilterShape(2021, JournalNat, UrlArxiv, DoiPlos, FALSE, <<"x">>, NoText),
              {"abstract"}),
     WithNone(FilterShape(0, JournalNat, UrlArxiv, DoiPlos, FALSE, <<"x">>, AbstractEn),
              {"year"}),
     WithNone(FilterShape(2021, JournalNat, NoText, NoText, TRUE, <<"x">>, AbstractEn),
              {"url", "doi"}),
     FilterShape(0, NoText, NoText, NoText, FALSE, NoText, NoText)}

\* apply_filters on articles whose keys may be absent or hold None
NullFilterInit ==
    /\ pc = "start"
    /\ \E n \in 0..MaxNullLen :
          \E f \in [1..n -> NullFilterShapes] :
              articles = [i \in 1..n |-> MkArticle(i, f[i])]
    /\ start_year \in StartYears
    /\ end_year \in EndYears
    /\ journals \in JournalLists
    /\ open_access \in BOOLEAN
    /\ language \in Languages
    /\ filtered = <<>>
    /\ DedupIdle
    /\ ScreenIdle
    /\ SearchIdle
    /\ SessionIdle

NullFilterSpec ==
    NullFilterInit /\ [][FilterNext]_vars

---------------------------------------------------------------------------
(* Properties of apply_filters                                             *)

\* the article satisfies every criterion that is given
SatisfiesEveryCriterion(a) ==
    /\ start_year # 0 => a.year >= start_year
    /\ end_year # 0 => a.year <= end_year
    /\ journals # {} => Strip(a.journal) \in journals
    /\ open_access => is_open_access(a)
    /\ Truthy(language) => detect_language(a) = language

Years(list) ==
    [k \in DOMAIN list |-> list[k].year]

\* the example: years 2018, 2020, 2021, 2023 under start_year=2020,
\* end_year=2022 and no other criterion
YearExample ==
    /\ Years(articles) = <<2018, 2020, 2021, 2023>>
    /\ start_year = 2020
    /\ end_year = 2022
    /\ journals = {}
    /\ ~open_access
    /\ ~Truthy(language)

\* C8: apply_filters returns the subsequence, in input order, of the articles
\* that satisfy every criterion given (a criterion that is absent filters
\* nothing); the year bounds are inclusive: the example yields the articles
\* of 2020 and 2021
C8_FiltersComposeAsAnd ==
    pc = "filtered" =>
        /\ filtered = SelectSeq(articles, SatisfiesEveryCriterion)
        /\ YearExample => filtered = <<articles[2], articles[3]>>
        /\ \A k \in DOMAIN filtered :
              /\ start_year # 0 => filtered[k].year >= start_year
              /\ end_year # 0 => filtered[k].year <= end_year

C8_Witness ==
    /\ pc = "filtered"
    /\ YearExample
    /\ Years(filtered) = <<2020, 2021>>

\* some reason field of the article holds a string
CarriesReason(a) ==
    \/ a.removal_reason # ReasonNone
    \/ a.excluded_reason # ReasonNone
    \/ ExportedReason(a) # NoText

\* C17: every article apply_filters drops from its input has a reason string
\* attached that explains the criterion that excluded it
C17_DroppedCarryReason ==
    pc = "filtered" =>
        \A i \in DOMAIN articles :
            i \notin Ids(filtered) => CarriesReason(articles[i])

\* the article satisfies every criterion given other than open access
SatisfiesOtherCriteria(a) ==
    /\ start_year # 0 => a.year >= start_year
    /\ end_year # 0 => a.year <= end_year
    /\ journals # {} => Strip(a.journal) \in journals
    /\ Truthy(language) => detect_language(a) = language

\* C18: with the open-access filter active, a record that its source adapter
\* flagged as open access passes the filter whatever its URL or DOI text
C18_AdapterFlagPasses ==
    (pc = "filtered" /\ open_access) =>
        \A i \in DOMAIN articles :
            (articles[i].open_access /\ SatisfiesOtherCriteria(articles[i]))
                => i \in Ids(filtered)

\* C19: apply_filters never raises because a key of an article (year,
\* journal, url, doi, title, abstract) is absent or holds None, whatever the
\* criteria given
C19_NeverRaisesOnNull ==
    pc # "raised"

---------------------------------------------------------------------------
(* modules/search_engine.py : search_articles                              *)

\* lines 284-287: the three adapter calls submitted to the pool
Adapters == {"search_semantic_scholar_oa", "search_pubmed_oa", "search_arxiv_light"}

\* what f.result() does for an adapter's future: raise, or return the records
Raises == [raised |-> TRUE, records |-> <<>>]

Returns(recs) ==
    [raised |-> FALSE, records |-> recs]

\* line 300: a DOI of more than 5 characters is the key
MIN_DOI_LEN == 5

\* lines 298-300
IdentityKey(a) ==
    LET doi == Strip(Lower(a.doi))
    IN  IF Len(doi) > MIN_DOI_LEN THEN doi ELSE TitleFingerprint(a.title)

\* lines 296-304: unique[key] = a for the first record of each non-empty key;
\* list(unique.values()) is in insertion order
RECURSIVE MergeLoopLastWins(_, _, _)
RECURSIVE MergeLoop(_, _, _)
\* a slip: unique[key] = a without the test "key not in unique"
MergeLoopLastWins(all, i, merged) ==
    IF i > Len(all) THEN merged
    ELSE LET key == IdentityKey(all[i])
             fresh == \A k \in DOMAIN merged : IdentityKey(merged[k]) # key
         IN  MergeLoopLastWins(all, i + 1,
                 IF ~Truthy(key) THEN merged
                 ELSE IF fresh THEN Append(merged, all[i])
                 ELSE [k \in DOMAIN merged |->
                          IF IdentityKey(merged[k]) = key THEN all[i] ELSE merged[k]])

MergeLoop(all, i, merged) ==
    IF i > Len(all) THEN merged
    ELSE LET key == IdentityKey(all[i])
             fresh == /\ Truthy(key)
                      /\ \A k \in DOMAIN merged : IdentityKey(merged[k]) # key
         IN  MergeLoop(all, i + 1, IF fresh THEN Append(merged, all[i]) ELSE merged)

\* a slip: no cut at max_results
TruncateNever(list, n) ==
    list

\* lines 306-307
Truncate(list, n) ==
    IF Len(list) > n THEN Prefix(list, n) ELSE list

\* a slip: f.result() outside a try
CollectUnguarded(all, outcome) ==
    IF outcome.raised
    THEN [all_articles |-> all, propagates |-> TRUE]
    ELSE [all_articles |-> all \o outcome.records, propagates |-> FALSE]

\* a slip: all_articles = f.result() in place of extend
CollectLatestOnly(all, outcome) ==
    IF outcome.raised
    THEN [all_articles |-> all, propagates |-> FALSE]
    ELSE [all_articles |-> outcome.records, propagates |-> FALSE]

\* lines 290-293: try: all_articles.extend(f.result()) / except Exception: log
Collect(all, outcome) ==
    IF outcome.raised
    THEN [all_articles |-> all, propagates |-> FALSE]
    ELSE [all_articles |-> all \o outcome.records, propagates |-> FALSE]

ExtractedText == <<"t">>

\* pdf_extractor.enrich_initial_search_result (not in the sources at hand; from
\* the specification, 4.3 step 4): a record with a pdf_url and no full_text
\* gets the extracted text when the fetch succeeds; a failure leaves the
\* record as it is and raises nothing
enrich_initial_search_result(a, fetched) ==
    IF Truthy(a.pdf_url) /\ ~Truthy(a.full_text) /\ fetched
    THEN [a EXCEPT !.full_text = ExtractedText]
    ELSE a

\* lines 312-314: every record of final_list is enriched in place
Enrich(list, fetchedIds) ==
    [k \in DOMAIN list |-> enrich_initial_search_result(list[k], list[k].id \in fetchedIds)]

MaxResultsLimit == 2

DoiLongA == <<"1", "0", ".", "1", "0", "0", "0", "/", "a">>
DoiLongAUpper == <<" ", "1", "0", ".", "1", "0", "0", "0", "/", "A", " ">>
DoiLongB == <<"1", "0", ".", "1", "0", "0", "0", "/", "b">>
DoiShort == <<"1", "0", ".", "1">>
TitleAB == <<"A", " ", "b">>
TitleABDash == <<"a", "-", "B">>
TitlePunct == <<"!", "?">>

SearchShape(d, t, p) ==
    [doi |-> d, title |-> t, pdf_url |-> p]

\* the lists an adapter may return: nothing; two records with long DOIs; a
\* record with the first DOI in another case and padded, and one keyed by its
\* title; a record with a short DOI and the same title fingerprint, and one
\* whose key is empty
ResultShapes ==
    {<<>>,
     <<SearchShape(DoiLongA, TextA, LinkP), SearchShape(DoiLongB, TextB, NoText)>>,
     <<SearchShape(DoiLongAUpper, TextC, NoText), SearchShape(NoText, TitleAB, LinkP)>>,
     <<SearchShape(DoiShort, TitleABDash, NoText), SearchShape(NoText, TitlePunct, LinkP)>>}

AdapterBase(ad) ==
    CASE ad = "search_semantic_scholar_oa" -> 10
      [] ad = "search_pubmed_oa" -> 20
      [] ad = "search_arxiv_light" -> 30

\* the records of an adapter, numbered per adapter
AdapterRecords(ad, shapes) ==
    [j \in DOMAIN shapes |-> MkArticle(AdapterBase(ad) + j, [source |-> ad] @@ shapes[j])]

Outcomes(ad) ==
    {Raises} \cup {Returns(AdapterRecords(ad, shapes)) : shapes \in ResultShapes}

\* lines 277-287: the three calls are submitted; every call completes
SearchInit ==
    /\ pc = "dispatched"
    /\ articles = <<>>
    /\ adapter_outcome \in {f \in [Adapters -> UNION {Outcomes(ad) : ad \in Adapters}] :
                               \A ad \in Adapters : f[ad] \in Outcomes(ad)}
    /\ pending = Adapters
    /\ all_articles = <<>>
    /\ max_results \in 1..MaxResultsLimit
    /\ final_list = <<>>
    /\ search_raised = FALSE
    /\ hung = {}
    /\ downloads = {}
    /\ AdapterIdle
    /\ DedupIdle
    /\ ScreenIdle
    /\ FilterIdle
    /\ SessionIdle

\* lines 289-293: as_completed yields the future of adapter ad
AdapterCompletes(ad) ==
    /\ pc = "dispatched"
    /\ ad \in pending
    /\ ad \notin hung
    /\ LET r == Collect(all_articles, adapter_outcome[ad])
       IN  /\ all_articles' = r.all_articles
           /\ search_raised' = r.propagates
           /\ pc' = IF r.propagates THEN "raised" ELSE "dispatched"
    /\ pending' = pending \ {ad}
    /\ UNCHANGED <<articles, dedupVars, screenVars, filterVars, sessionVars,
                   adapter_outcome, max_results, final_list, hung, downloads,
                   adapterVars>>

\* lines 295-316: merge by identity, truncate, enrich, return
MergeAndReturn ==
    /\ pc = "dispatched"
    /\ pending = {}
    /\ LET merged == Truncate(MergeLoop(all_articles, 1, <<>>), max_results)
       IN  \E fetchedIds \in SUBSET Ids(merged) :
               final_list' = Enrich(merged, fetchedIds)
    /\ pc' = "returned"
    /\ UNCHANGED <<articles, dedupVars, screenVars, filterVars, sessionVars,
                   adapter_outcome, pending, all_articles, max_results, search_raised,
                   hung, downloads, adapterVars>>

SearchNext ==
    \/ \E ad \in Adapters : AdapterCompletes(ad)
    \/ MergeAndReturn

SearchSpec ==
    SearchInit /\ [][SearchNext]_vars

\* a call that completes raises, returns nothing or returns one record
HangOutcomes(ad) ==
    {Raises, Returns(<<>>),
     Returns(AdapterRecords(ad, <<SearchShape(NoText, TextA, LinkP)>>))}

\* as SearchInit, but at most one of the calls never completes: Entrez.esearch
\* and Entrez.efetch (lines 130, 138) are called without a timeout, and the
\* timeouts of requests.get (lines 67, 239) bound the wait for each read only
HangInit ==
    /\ pc = "dispatched"
    /\ articles = <<>>
    /\ adapter_outcome \in
          {f \in [Adapters -> UNION {HangOutcomes(ad) : ad \in Adapters}] :
              \A ad \in Adapters : f[ad] \in HangOutcomes(ad)}
    /\ pending = Adapters
    /\ all_articles = <<>>
    /\ max_results \in 1..MaxResultsLimit
    /\ final_list = <<>>
    /\ search_raised = FALSE
    /\ hung \in {{}} \cup {{ad} : ad \in Adapters}
    /\ downloads = {}
    /\ AdapterIdle
    /\ DedupIdle
    /\ ScreenIdle
    /\ FilterIdle
    /\ SessionIdle

\* a call that completes is yielded by as_completed, and the thread of
\* search_articles goes on when it can
HangSpec ==
    HangInit /\ [][SearchNext]_vars /\ WF_vars(SearchNext)

---------------------------------------------------------------------------
(* Properties of search_articles                                           *)

Failed ==
    {ad \in Adapters : adapter_outcome[ad].raised}

Succeeded ==
    Adapters \ Failed

\* the records the adapters that succeeded produced
SurvivorRecords ==
    UNION {Range(adapter_outcome[ad].records) : ad \in Succeeded}

PartialFailure ==
    /\ Failed # {}
    /\ Succeeded # {}

C21_OneRecordPerKeyFirstWins ==
    pc = "returned" =>
        /\ \A k, m \in DOMAIN final_list :
              k # m => IdentityKey(final_list[k]) # IdentityKey(final_list[m])
        /\ \A k \in DOMAIN final_list :
              \E i \in DOMAIN all_articles :
                  /\ all_articles[i].id = final_list[k].id
                  /\ \A j \in 1..(i - 1) :
                        IdentityKey(all_articles[j]) # IdentityKey(final_list[k])

\* a key came from two adapters, once by DOIs that differ in case and
\* padding, and the list holds its first record
C21_Witness ==
    /\ pc = "returned"
    /\ \E k \in DOMAIN final_list :
          \E i, j \in DOMAIN all_articles :
              /\ i < j
              /\ all_articles[i].id = final_list[k].id
              /\ IdentityKey(all_articles[j]) = IdentityKey(all_articles[i])
              /\ all_articles[j].doi # all_articles[i].doi

\* the merged list of lines 296-304, before the cut at max_results
Merged ==
    MergeLoop(all_articles, 1, <<>>)

\* C27: search_articles returns at most max_results articles, whatever the
\* adapters return
C27_AtMostMaxResults ==
    pc = "returned" => Len(final_list) <= max_results

\* the merge held more records than max_results and the list was cut
C27_Witness ==
    /\ pc = "returned"
    /\ Len(Merged) > max_results
    /\ Len(final_list) = max_results

\* C28: whatever the order in which the adapter calls complete, the merged
\* result before the cut holds the same set of identity keys: the non-empty
\* keys of the records of the adapters that returned, which the order does
\* not enter
C28_KeySetIndependentOfOrder ==
    pc = "returned" =>
        {IdentityKey(Merged[k]) : k \in DOMAIN Merged}
            = {IdentityKey(r) : r \in {x \in SurvivorRecords : Truthy(IdentityKey(x))}}

\* the calls completed in another order than they were submitted, and a key
\* came from two adapters
C28_Witness ==
    /\ pc = "returned"
    /\ \E i, j \in DOMAIN all_articles :
          /\ i < j
          /\ all_articles[i].id > all_articles[j].id
          /\ IdentityKey(all_articles[i]) = IdentityKey(all_articles[j])
    /\ Cardinality({IdentityKey(Merged[k]) : k \in DOMAIN Merged}) > 1

\* C25: search_articles eventually returns, even if one adapter call never
\* completes
C25_EventuallyReturns ==
    <>(pc = "returned")

\* every adapter returned an empty list or raised
NothingFound ==
    \A ad \in Adapters : adapter_outcome[ad].records = <<>>

\* C20: when every source adapter returns nothing, the call of search_articles
\* ends in a failure surfaced to its caller, not in an ordinary result
C20_NothingFoundIsHardFailure ==
    (NothingFound /\ pc # "dispatched") => (pc = "raised" /\ search_raised)

---------------------------------------------------------------------------
(* modules/deduplication.py : remove_duplicates_pipeline                   *)

\* a slip: the removals of the exact pass left out of all_removed
remove_duplicates_pipeline_semantic_only(arts) ==
    LET exact == remove_exact_duplicates(arts)
        semantic == remove_semantic_duplicates(exact.unique, DUPLICATE_THRESHOLD)
    IN  [unique |-> semantic.unique, removed |-> semantic.removed]

\* lines 98-113: exact pass, semantic pass on its survivors at
\* config.DUPLICATE_THRESHOLD, all_removed = removed_exact + removed_semantic
remove_duplicates_pipeline(arts) ==
    LET exact == remove_exact_duplicates(arts)
        semantic == remove_semantic_duplicates(exact.unique, DUPLICATE_THRESHOLD)
    IN  [unique |-> semantic.unique, removed |-> exact.removed \o semantic.removed]

MaxPipelineLen == 4

DoiC == <<"1", "0", ".", "1", "/", "c">>

PipelineShape(d, t, ab, y) ==
    [doi |-> d, title |-> t, abstract |-> ab, year |-> y]

\* embeddings (1,0,3), (0,1,3), (1,1,0), (1,2,2) and none; cos((1,0,3),(0,1,3))
\* = 0.9, cos((1,2,2),(0,1,3)) = 0.843, cos((1,2,2),(1,0,3)) = 0.738; the first
\* three shapes share a DOI or a title and year, the fourth is close to them in
\* meaning only
PipelineShapes ==
    {PipelineShape(DoiA, TextA, TextC3, 2020),
     PipelineShape(DoiA, TextB, TextC3, 2020),
     PipelineShape(NoText, TextA, TextC3, 2020),
     PipelineShape(DoiB, TextB, TextC3, 2021),
     PipelineShape(NoText, TextAB, NoText, 2020),
     PipelineShape(DoiC, TextABB, TextCC, 2021),
     PipelineShape(NoText, <<" ">>, NoText, 0)}

PipelineInit ==
    /\ pc = "start"
    /\ \E n \in 0..MaxPipelineLen :
          \E f \in [1..n -> PipelineShapes] :
              articles = [i \in 1..n |-> MkArticle(i, f[i])]
    /\ DedupIdle
    /\ ScreenIdle
    /\ FilterIdle
    /\ SearchIdle
    /\ SessionIdle

\* unique, removed = remove_duplicates_pipeline(articles)
RunPipeline ==
    /\ pc = "start"
    /\ LET r == remove_duplicates_pipeline(articles)
       IN  /\ unique' = r.unique
           /\ removed' = r.removed
           /\ articles' = AfterCall(articles, r.removed)
    /\ pc' = "deduped"
    /\ UNCHANGED <<unique2, removed2, similarity_threshold, similarity_threshold2,
                   screenVars, filterVars, searchVars, sessionVars>>

\* unique2, removed2 = remove_duplicates_pipeline(unique)
RerunPipeline ==
    /\ pc = "deduped"
    /\ LET r == remove_duplicates_pipeline(unique)
       IN  /\ unique2' = r.unique
           /\ removed2' = r.removed
    /\ pc' = "rededuped"
    /\ UNCHANGED <<articles, unique, removed, similarity_threshold,
                   similarity_threshold2, screenVars, filterVars, searchVars, sessionVars>>

PipelineNext ==
    \/ RunPipeline
    \/ RerunPipeline

PipelineSpec ==
    PipelineInit /\ [][PipelineNext]_vars

---------------------------------------------------------------------------
(* Properties of remove_duplicates_pipeline                                *)

ExactReasons == {ReasonExactDoi, ReasonExactTitleYear}

\* C11: the full deduplication (exact pass, then semantic pass at the same
\* threshold) run on a kept list it produced returns that list, in the same
\* order, and removes nothing
C11_PipelineIdempotent ==
    pc = "rededuped" => (unique2 = unique /\ removed2 = <<>>)

\* the first run removed by both passes and kept two articles with text that
\* the second run had to compare
C11_Witness ==
    /\ pc = "rededuped"
    /\ \E k \in DOMAIN removed : removed[k].removal_reason \in ExactReasons
    /\ \E k \in DOMAIN removed : removed[k].removal_reason = ReasonSemantic(DUPLICATE_THRESHOLD)
    /\ \E k, m \in DOMAIN unique : k < m /\ HasText(unique[k]) /\ HasText(unique[m])

\* C12: kept and removed together hold every input article exactly once;
\* removed is the removals of the exact pass followed by those of the semantic
\* pass; an article removed by the exact pass carries an exact reason and
\* matches an earlier input article by DOI or by title and year, an article
\* removed by the semantic pass carries the semantic reason and is closer than
\* the threshold to an earlier article that was kept
C12_PipelinePartition ==
    pc = "deduped" =>
        /\ Ids(unique) \cup Ids(removed) = 1..Len(articles)
        /\ Ids(unique) \cap Ids(removed) = {}
        /\ Len(unique) + Len(removed) = Len(articles)
        /\ InInputOrder(unique)
        /\ \E cut \in 0..Len(removed) :
              /\ InInputOrder(SubSeq(removed, 1, cut))
              /\ InInputOrder(SubSeq(removed, cut + 1, Len(removed)))
              /\ \A k \in 1..cut :
                    /\ removed[k].removal_reason \in ExactReasons
                    /\ \E j \in 1..(removed[k].id - 1) :
                          ExactMatch(articles[j], removed[k])
              /\ \A k \in (cut + 1)..Len(removed) :
                    /\ removed[k].removal_reason = ReasonSemantic(DUPLICATE_THRESHOLD)
                    /\ \E m \in DOMAIN unique :
                          /\ unique[m].id < removed[k].id
                          /\ CosGreater(Encode(DedupText(removed[k])),
                                        Encode(DedupText(unique[m])),
                                        DUPLICATE_THRESHOLD)
        /\ \A i \in DOMAIN articles :
              /\ articles[i].id = i
              /\ articles[i].id \in Ids(removed) =>
                    \E k \in DOMAIN removed : removed[k] = articles[i]
              /\ articles[i].id \in Ids(unique) =>
                    \E k \in DOMAIN unique : unique[k] = articles[i]

\* both passes removed, the exact removal later in the input than the
\* semantic one, so that removed is not in input order as a whole
C12_Witness ==
    /\ pc = "deduped"
    /\ \E k, m \in DOMAIN removed :
          /\ k < m
          /\ removed[k].removal_reason \in ExactReasons
          /\ removed[m].removal_reason = ReasonSemantic(DUPLICATE_THRESHOLD)
          /\ removed[m].id < removed[k].id
    /\ Len(unique) >= 2

---------------------------------------------------------------------------
(* main.py : POST /apply_filters over the records of a session             *)

HTTP_OK == 200
HTTP_BAD_REQUEST == 400
HTTP_SERVER_ERROR == 500

\* the list with every dict as the store (the session's records, one per id)
\* now holds it: the lists of a session share their dicts
Latest(store, list) ==
    [k \in DOMAIN list |-> store[list[k].id]]

MaxSessionLen == 2
MaxRuns == 2

TextCA == <<"c", "a">>

\* against the questions "ac" and "ab": "ac" 1.0 and 0.5, "aac" 0.949 and
\* 0.632, "a" 0.707 and 0.707, "ab" 0.5 and 1.0, "ca" as "ac" (a semantic
\* duplicate of it); the first two share a DOI
SessionShapes ==
    {PipelineShape(DoiA, TextAC, NoText, 2019),
     PipelineShape(DoiA, TextAAC, NoText, 2021),
     PipelineShape(NoText, TextA, NoText, 2021),
     PipelineShape(DoiB, TextAB, NoText, 2022),
     PipelineShape(DoiC, TextCA, NoText, 2021),
     PipelineShape(NoText, <<" ">>, NoText, 2021)}

SessionStartYears == {0, 2021}
SessionQueries == {TextAC, TextAB}
SessionFaults == {"none", "batch"}

\* TEMP_ARTICLES[session_id]["articles"] as /search stored it (lines 109-116)
SessionInit ==
    /\ pc = "session"
    /\ \E n \in 1..MaxSessionLen :
          \E f \in [1..n -> SessionShapes] :
              articles = [i \in 1..n |-> MkArticle(i, f[i])]
    /\ DedupIdle
    /\ ScreenIdle
    /\ FilterIdle
    /\ SearchIdle
    /\ SessionIdle

\* a slip: "dedup_articles": raw_articles
RespondStoresRaw(raw, articles_filtered, unique_articles, screened, store) ==
    IF articles_filtered = <<>>
    THEN [status |-> HTTP_SERVER_ERROR, articles |-> raw]
    ELSE [status |-> HTTP_OK, articles |-> store,
          filtered |-> Latest(store, articles_filtered),
          unique |-> store,
          relevant |-> Latest(store, screened.relevant),
          excluded |-> Latest(store, screened.excluded)]

\* the response of lines 234-235 and of lines 291-311
Respond(raw, articles_filtered, unique_articles, screened, store) ==
    IF articles_filtered = <<>>
    THEN [status |-> HTTP_SERVER_ERROR, articles |-> raw]
    ELSE [status |-> HTTP_OK, articles |-> store,
          filtered |-> Latest(store, articles_filtered),
          unique |-> Latest(store, unique_articles),
          relevant |-> Latest(store, screened.relevant),
          excluded |-> Latest(store, screened.excluded)]

\* POST /apply_filters for a session that exists (lines 205-311): filters,
\* exact pass, semantic pass at 0.95, screening against query_en (q, lines
\* 262-277), every stage on the dicts of session_data["articles"] (each
\* stage's result is bound once)
ApplyFiltersRequest ==
    /\ pc = "session"
    /\ session_runs < MaxRuns
    /\ \E sy \in SessionStartYears, q \in SessionQueries, fault \in SessionFaults :
       \E articles_filtered \in {apply_filters(articles, sy, 0, FALSE, LangNone, {})} :
       \E exact \in {remove_exact_duplicates(articles_filtered)} :
       \E semantic \in {remove_semantic_duplicates(exact.unique, MAIN_DUPLICATE_THRESHOLD)} :
       \E screened \in {screen_articles(semantic.unique, q, fault)} :
       \E store \in {AfterCall(AfterCall(AfterCall(articles, exact.removed),
                                         semantic.removed), screened.articles)} :
       \E r \in {Respond(articles, articles_filtered, semantic.unique, screened, store)} :
          /\ start_year' = sy
          /\ query_text' = q
          /\ encode_fault' = fault
          /\ http_status' = r.status
          /\ articles' = r.articles
          /\ IF r.status = HTTP_OK
             THEN /\ filtered' = r.filtered
                  /\ unique' = r.unique
                  /\ relevant_articles' = r.relevant
                  /\ excluded_articles' = r.excluded
             ELSE UNCHANGED <<filtered, unique, relevant_articles, excluded_articles>>
    /\ session_runs' = session_runs + 1
    /\ last_request' = [endpoint |-> "/apply_filters", known |-> TRUE]
    /\ UNCHANGED <<pc, removed, unique2, removed2, similarity_threshold,
                   similarity_threshold2, translate_outcome, end_year, journals,
                   open_access, language, searchVars>>

\* POST /search with results (lines 89-116): TEMP_ARTICLES[session_id] is
\* assigned a new dict that holds "articles" and none of the later lists
SearchRequest ==
    /\ pc = "session"
    /\ session_runs < MaxRuns
    /\ \E n \in 1..MaxSessionLen :
          \E f \in [1..n -> SessionShapes] :
              articles' = [i \in 1..n |-> MkArticle(i, f[i])]
    /\ filtered' = <<>>
    /\ unique' = <<>>
    /\ relevant_articles' = <<>>
    /\ excluded_articles' = <<>>
    /\ http_status' = HTTP_OK
    /\ session_runs' = session_runs + 1
    /\ last_request' = [endpoint |-> "/search", known |-> TRUE]
    /\ UNCHANGED <<pc, removed, unique2, removed2, similarity_threshold,
                   similarity_threshold2, query_text, encode_fault,
                   translate_outcome, start_year, end_year, journals,
                   open_access, language, searchVars>>

SessionEndpoints ==
    {"/update_filter_count", "/apply_filters", "/submit_screening",
     "/generate_synthesis"}

\* lines 313-315: except Exception as e: raise HTTPException(status_code=500),
\* around the whole body of /apply_filters; an HTTPException is an Exception
CriticalError(raised_status) ==
    HTTP_SERVER_ERROR

\* session_id not in TEMP_ARTICLES: a JSONResponse with status 400 is returned
\* (lines 141-142, 381-382, 445-446); /apply_filters raises HTTPException(400)
\* inside its try (lines 198-203)
UnknownSessionStatus(endpoint) ==
    IF endpoint = "/apply_filters"
    THEN CriticalError(HTTP_BAD_REQUEST)
    ELSE HTTP_BAD_REQUEST

\* a request of a session-scoped endpoint that names no stored session
UnknownSessionRequest ==
    /\ pc = "session"
    /\ \E endpoint \in SessionEndpoints :
          /\ http_status' = UnknownSessionStatus(endpoint)
          /\ last_request' = [endpoint |-> endpoint, known |-> FALSE]
    /\ UNCHANGED <<pc, articles, dedupVars, screenVars, filterVars, searchVars,
                   session_runs>>

SessionNext ==
    \/ ApplyFiltersRequest
    \/ SearchRequest
    \/ UnknownSessionRequest

SessionSpec ==
    SessionInit /\ [][SessionNext]_vars

---------------------------------------------------------------------------
(* Properties of the stages over the records of a session                  *)

NoReason(a) ==
    /\ a.removal_reason = ReasonNone
    /\ a.excluded_reason = ReasonNone

\* C13: after any sequence of requests over the records of a session, no
\* article in the surviving output of deduplication carries a removal reason
\* and no article in the surviving output of screening carries any rejection
\* reason
C13_SurvivorsCarryNoReason ==
    http_status = HTTP_OK =>
        /\ \A k \in DOMAIN unique : unique[k].removal_reason = ReasonNone
        /\ \A k \in DOMAIN relevant_articles : NoReason(relevant_articles[k])

\* the value screen_articles computes for a record against the query text
SimilarityTo(a, q) ==
    IF IsValid(a) THEN <<RoundedSim(Encode(q), Encode(ScreenText(a)))>> ELSE <<0>>

\* C14: after screen_articles(articles, q2) has completed, whatever its
\* outcome, every record it was given that carries a similarity carries the
\* value computed against q2 in that run
C14_SimilarityOfThisQuestion ==
    http_status = HTTP_OK =>
        \A k \in DOMAIN unique :
            unique[k].similarity # <<>> =>
                unique[k].similarity = SimilarityTo(unique[k], query_text)

\* C29: every session-scoped endpoint answers an unknown session_id with
\* HTTP 400
C29_UnknownSessionIs400 ==
    (last_request # <<>> /\ ~last_request.known) => http_status = HTTP_BAD_REQUEST

\* C30: after any sequence of /search and /apply_filters requests the stored
\* lists form the chain relevant_articles, dedup_articles, filtered_articles,
\* articles, each within the next, so the funnel counts of lines 477-482 do
\* not increase
C30_StoredListsFormChain ==
    /\ Ids(relevant_articles) \subseteq Ids(unique)
    /\ Ids(unique) \subseteq Ids(filtered)
    /\ Ids(filtered) \subseteq Ids(articles)
    /\ Len(relevant_articles) <= Len(unique)
    /\ Len(unique) <= Len(filtered)
    /\ Len(filtered) <= Len(articles)

\* a second request was served for the session, records were dropped on the
\* way and one was retained
C30_Witness ==
    /\ session_runs = MaxRuns
    /\ last_request # <<>>
    /\ last_request.endpoint = "/apply_filters"
    /\ last_request.known
    /\ http_status = HTTP_OK
    /\ relevant_articles # <<>>
    /\ Len(unique) < Len(articles)

---------------------------------------------------------------------------
(* modules/search_engine.py : search_semantic_scholar_oa                   *)

\* line 56: offset < 500; lines 59 and 102: pages of 100
S2_OFFSET_CEILING == 500
S2_PAGE_STEP == 100

MaxTarget == 2
MaxPapers == 3
MaxVariations == 2

\* the paperIds the source knows
Papers == 1..MaxPapers

\* what one request yields (lines 66-107): an exception or a status other
\* than 200, an empty "data", or a page; a page is the set of its papers that
\* have an open-access PDF and an abstract of 150 characters (lines 73-76),
\* of whatever size the source chose to send
S2Responses ==
    {[kind |-> "error", papers |-> {}], [kind |-> "empty", papers |-> {}]}
        \cup {[kind |-> "page", papers |-> P] : P \in SUBSET Papers}

\* what the adapter does not touch
outsideAdapter == <<articles, dedupVars, screenVars, filterVars, sessionVars,
                    adapter_outcome, pending, all_articles, max_results, final_list,
                    search_raised, hung, downloads>>

\* the adapter is called (the API key is configured): articles_map = {}
S2Init ==
    /\ pc = "s2_for"
    /\ articles = <<>>
    /\ articles_map = {}
    /\ offset = 0
    /\ target \in 1..MaxTarget
    /\ variation = 1
    /\ adapter_outcome = <<>>
    /\ pending = {}
    /\ all_articles = <<>>
    /\ max_results = 0
    /\ final_list = <<>>
    /\ search_raised = FALSE
    /\ hung = {}
    /\ downloads = {}
    /\ DedupIdle
    /\ ScreenIdle
    /\ FilterIdle
    /\ SessionIdle

\* lines 49-55: the next term group, unless the target is reached
S2NextVariation ==
    /\ pc = "s2_for"
    /\ variation <= MaxVariations
    /\ Cardinality(articles_map) < target
    /\ offset' = 0
    /\ pc' = "s2_while"
    /\ UNCHANGED <<articles_map, target, variation, outsideAdapter>>

\* lines 56-107: one request of the while loop and the papers of its page
S2FetchPage ==
    /\ pc = "s2_while"
    /\ Cardinality(articles_map) < target
    /\ offset < S2_OFFSET_CEILING
    /\ \E r \in S2Responses :
          IF r.kind = "page"
          THEN /\ articles_map' = articles_map \cup r.papers
               /\ offset' = offset + S2_PAGE_STEP
               /\ IF r.papers \subseteq articles_map
                  THEN variation' = variation + 1 /\ pc' = "s2_for"
                  ELSE UNCHANGED <<variation, pc>>
          ELSE /\ variation' = variation + 1
               /\ pc' = "s2_for"
               /\ UNCHANGED <<articles_map, offset>>
    /\ UNCHANGED <<target, outsideAdapter>>

\* line 56: the while condition fails
S2EndOfPages ==
    /\ pc = "s2_while"
    /\ ~(Cardinality(articles_map) < target /\ offset < S2_OFFSET_CEILING)
    /\ variation' = variation + 1
    /\ pc' = "s2_for"
    /\ UNCHANGED <<articles_map, offset, target, outsideAdapter>>

\* lines 50 and 109: return list(articles_map.values())
S2Return ==
    /\ pc = "s2_for"
    /\ variation > MaxVariations \/ Cardinality(articles_map) >= target
    /\ pc' = "s2_returned"
    /\ UNCHANGED <<adapterVars, outsideAdapter>>

S2Next ==
    \/ S2NextVariation
    \/ S2FetchPage
    \/ S2EndOfPages
    \/ S2Return

S2Spec ==
    S2Init /\ [][S2Next]_vars

\* C22: a source adapter returns at most `target` records, whatever pages
\* the source sends
C22_AdapterRespectsLimit ==
    pc = "s2_returned" => Cardinality(articles_map) <= target

---------------------------------------------------------------------------
(* modules/screening.py : screen_articles, lines 22-47 (the question)      *)

\* the English text the translation collaborator answers with
EnglishText == TextAC

\* modules/screening_ai.py lines 645-658: the answer is response.text,
\* which is the translation, an empty str or None; an exception of the
\* call gives the text back
translate_question_to_english(text, outcome) ==
    CASE outcome = "answer" -> [none |-> FALSE, text |-> EnglishText]
      [] outcome = "raises" -> [none |-> FALSE, text |-> text]
      [] outcome = "empty" -> [none |-> FALSE, text |-> NoText]
      [] outcome = "null" -> [none |-> TRUE, text |-> NoText]

\* screen_articles(articles, query_input) for a question passed as a str:
\* line 23 returns for no articles; line 35 translates; when the answer
\* differs from the question lines 37-40 log query_text[:100], a TypeError
\* for None; lines 44-154 screen against the answer
screen_question(arts, query_input, outcome, fault) ==
    LET answer == translate_question_to_english(query_input, outcome)
        screened == screen_articles(arts, answer.text, fault)
    IN  IF arts = <<>>
        THEN [raised |-> FALSE, relevant |-> <<>>, excluded |-> <<>>, articles |-> arts]
        ELSE IF answer.none
        THEN [raised |-> TRUE, relevant |-> <<>>, excluded |-> <<>>, articles |-> arts]
        ELSE [raised |-> FALSE, relevant |-> screened.relevant,
              excluded |-> screened.excluded, articles |-> screened.articles]

MaxQuestionLen == 2

Questions == {TextAC, TextAB}

TranslateOutcomes == {"answer", "raises", "empty", "null"}

QuestionInit ==
    /\ pc = "start"
    /\ \E n \in 0..MaxQuestionLen :
          \E f \in [1..n -> ScreenShapes] :
              articles = [i \in 1..n |-> MkArticle(i, f[i])]
    /\ query_text \in Questions
    /\ translate_outcome \in TranslateOutcomes
    /\ encode_fault = "none"
    /\ relevant_articles = <<>>
    /\ excluded_articles = <<>>
    /\ DedupIdle
    /\ FilterIdle
    /\ SearchIdle
    /\ SessionIdle

\* relevant_articles = screen_articles(articles, question)
RunScreenQuestion ==
    /\ pc = "start"
    /\ \E r \in {screen_question(articles, query_text, translate_outcome, encode_fault)} :
          /\ relevant_articles' = r.relevant
          /\ excluded_articles' = r.excluded
          /\ articles' = r.articles
          /\ pc' = IF r.raised THEN "raised" ELSE "screened"
    /\ UNCHANGED <<dedupVars, query_text, encode_fault, translate_outcome, filterVars,
                   searchVars, sessionVars>>

QuestionNext ==
    RunScreenQuestion

QuestionSpec ==
    QuestionInit /\ [][QuestionNext]_vars

\* C23: when the translation fails (an exception, an empty or a null answer)
\* screen_articles does not fail: it goes on with the question as it was
\* passed and returns the screening result for it
C23_TranslationFailureFallsBack ==
    (pc # "start" /\ translate_outcome \in {"raises", "empty", "null"}) =>
        /\ pc = "screened"
        /\ Ids(relevant_articles) = {i \in DOMAIN articles : AtLeastFloor(articles[i])}

---------------------------------------------------------------------------
(* modules/pdf_extractor.py : enrich_article_with_full_text                *)

\* what the download and the extraction of a PDF come to: a text, HTTP 403
\* or another status, a content-length over MAX_PDF_SIZE, a timeout, a file
\* pdfplumber cannot open, a PDF without extractable text
FetchOutcomes == {"text", "forbidden", "oversized", "timeout", "bad_pdf", "no_text"}

\* lines 16-78: "" for no URL and for every failure, each exception caught
extract_text_from_pdf_url(pdf_url, fetch) ==
    IF ~Truthy(pdf_url) THEN NoText
    ELSE IF fetch = "text" THEN ExtractedText
    ELSE NoText

\* a slip: no test of the full_text the article already has
enrich_article_redownloads(article, fetch) ==
    LET full_text == extract_text_from_pdf_url(article.pdf_url, fetch)
    IN  IF Truthy(article.pdf_url)
        THEN [article |-> IF Truthy(full_text)
                          THEN [article EXCEPT !.full_text = full_text,
                                               !.pdf_extraction_status = "success"]
                          ELSE [article EXCEPT !.pdf_extraction_status = "failed"],
              downloaded |-> TRUE]
        ELSE [article |-> [article EXCEPT !.pdf_extraction_status = "no_pdf_url"],
              downloaded |-> FALSE]

\* lines 80-104: the article as the call leaves it, and whether
\* extract_text_from_pdf_url requested the URL
enrich_article_with_full_text(article, fetch) ==
    LET full_text == extract_text_from_pdf_url(article.pdf_url, fetch)
    IN  IF Truthy(article.full_text)
        THEN [article |-> article, downloaded |-> FALSE]
        ELSE IF Truthy(article.pdf_url)
        THEN [article |-> IF Truthy(full_text)
                          THEN [article EXCEPT !.full_text = full_text,
                                               !.pdf_extraction_status = "success"]
                          ELSE [article EXCEPT !.pdf_extraction_status = "failed"],
              downloaded |-> TRUE]
        ELSE [article |-> [article EXCEPT !.pdf_extraction_status = "no_pdf_url"],
              downloaded |-> FALSE]

MaxEnrichLen == 3

EnrichShape(p, ft) ==
    [title |-> TextA, pdf_url |-> p, full_text |-> ft]

\* with and without a pdf_url, with and without a full_text
EnrichShapes ==
    {EnrichShape(LinkP, NoText), EnrichShape(LinkP, TextB),
     EnrichShape(NoText, NoText), EnrichShape(NoText, TextB)}

\* all_articles: the records as they are given; final_list: the same dicts,
\* changed in place by the calls; pending: the records not yet passed
EnrichInit ==
    /\ pc = "enriching"
    /\ articles = <<>>
    /\ \E n \in 0..MaxEnrichLen :
          \E f \in [1..n -> EnrichShapes] :
              /\ all_articles = [i \in 1..n |-> MkArticle(i, f[i])]
              /\ final_list = all_articles
              /\ pending = 1..n
    /\ adapter_outcome = <<>>
    /\ max_results = 0
    /\ search_raised = FALSE
    /\ hung = {}
    /\ downloads = {}
    /\ AdapterIdle
    /\ DedupIdle
    /\ ScreenIdle
    /\ FilterIdle
    /\ SessionIdle

\* enrich_article_with_full_text(article) for one record
EnrichArticle ==
    /\ pc = "enriching"
    /\ \E i \in pending, fetch \in FetchOutcomes :
          \E r \in {enrich_article_with_full_text(final_list[i], fetch)} :
              /\ final_list' = [final_list EXCEPT ![i] = r.article]
              /\ downloads' = IF r.downloaded THEN downloads \cup {i} ELSE downloads
              /\ pending' = pending \ {i}
    /\ UNCHANGED <<pc, articles, dedupVars, screenVars, filterVars, sessionVars,
                   adapter_outcome, all_articles, max_results, search_raised, hung,
                   adapterVars>>

EnrichNext ==
    EnrichArticle

EnrichSpec ==
    EnrichInit /\ [][EnrichNext]_vars

\* the records that were passed to the call
Enriched ==
    DOMAIN final_list \ pending

NeedsText(a) ==
    Truthy(a.pdf_url) /\ ~Truthy(a.full_text)

\* the call fetched nothing usable for record i
FetchFailed(i) ==
    /\ i \in downloads
    /\ ~Truthy(final_list[i].full_text)

=============================================================================
